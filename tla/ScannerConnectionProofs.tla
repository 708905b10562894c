----------------------- MODULE ScannerConnectionProofs -----------------------
(***************************************************************************)
(* Theorems about ScannerConnection, for every size of the buffer, of the  *)
(* socket, of the strings and of the commands.                             *)
(***************************************************************************)
EXTENDS ScannerConnection, SequenceTheorems, TLAPS

USE ConnectionBoundAssumption

Byte == {"version", "nvt_info", "complete_list", "ack", "command", "none"} \X Int

\* What a write appends: the bytes n + 1 to n + k of a string.
LEMMA Cut ==
    ASSUME NEW S, NEW s \in Seq(S), NEW m \in Nat, NEW k \in Int, m + k <= Len(s)
    PROVE  /\ SubSeq(s, m + 1, m + k) \in Seq(S)
           /\ Len(SubSeq(s, m + 1, m + k)) = IF k > 0 THEN k ELSE 0
           /\ \A i \in 1 .. k : SubSeq(s, m + 1, m + k)[i] = s[m + i]
<1>1. \A i \in (m + 1) .. (m + k) : s[i] \in S
  BY ElementOfSeq, LenProperties
<1> QED
  BY <1>1, SubSeqProperties

LEMMA Concat ==
    ASSUME NEW S, NEW s \in Seq(S), NEW t \in Seq(S)
    PROVE  /\ s \o t \in Seq(S)
           /\ Len(s \o t) = Len(s) + Len(t)
           /\ \A i \in 1 .. Len(s) : (s \o t)[i] = s[i]
           /\ \A i \in 1 .. Len(t) : (s \o t)[Len(s) + i] = t[i]
<1>1. Len(s) \in Nat /\ Len(t) \in Nat
  BY LenProperties
<1> QED
  BY <1>1, ConcatProperties

LEMMA StringType ==
    ASSUME NEW name \in {"version", "nvt_info", "complete_list", "ack"}, NEW n \in Nat
    PROVE  /\ String(name, n) \in Seq(Byte) /\ Len(String(name, n)) = n
           /\ \A i \in 1 .. n : String(name, n)[i] = << name, i >>
<1>1. \A i \in 1 .. n : << name, i >> \in Byte
  BY DEF Byte
<1>2. [i \in 1 .. n |-> << name, i >>] \in Seq(Byte)
  BY <1>1, IsASeq
<1> QED
  BY <1>2, LenProperties DEF String

LEMMA Strings ==
    /\ Version \in Seq(Byte) /\ Len(Version) = StringLen
    /\ NvtInfo \in Seq(Byte) /\ Len(NvtInfo) = StringLen
    /\ CompleteList \in Seq(Byte) /\ Len(CompleteList) = StringLen
    /\ Ack \in Seq(Byte) /\ Len(Ack) = 1
BY StringType DEF Version, NvtInfo, CompleteList, Ack

LEMMA CommandType ==
    ASSUME NEW n \in Nat, bytes \in Int
    PROVE  /\ Command(n) \in Seq(Byte) /\ Len(Command(n)) = n
           /\ \A i \in 1 .. n : Command(n)[i][1] = "command"
<1>1. \A i \in 1 .. n : << "command", MaxBytes - bytes + i >> \in Byte
  BY DEF Byte
<1>2. [i \in 1 .. n |-> << "command", MaxBytes - bytes + i >>] \in Seq(Byte)
  BY <1>1, IsASeq
<1>3. Command(n) \in Seq(Byte) /\ DOMAIN Command(n) = 1 .. n
  BY <1>2 DEF Command
<1>4. Len(Command(n)) = n
  BY <1>3, LenProperties
<1>5. \A i \in 1 .. n : Command(n)[i] = << "command", MaxBytes - bytes + i >>
  BY DEF Command
<1> QED
  BY <1>3, <1>4, <1>5

-----------------------------------------------------------------------------
(***************************************************************************)
(* Types.                                                                  *)
(***************************************************************************)
\* The parts of the type invariant.
StateType ==
    /\ cache_mode \in BOOLEAN
    /\ phase \in Phase
    /\ init_state \in scanner_init_state_t
    /\ phase \in {"queue", "serve"} => init_state # "TOP"
    /\ answered \in 0 .. 4
    /\ up \in BOOLEAN
    /\ answer \in {"none", "ok", "down", "loading"}
    /\ tries \in 0 .. MaxTries
    /\ bytes \in 0 .. MaxBytes

BufferType ==
    /\ to_server \in [1 .. BufferSize -> Byte]
    /\ to_server_start \in Nat /\ to_server_end \in Nat
    /\ to_server_start <= to_server_end
    /\ to_server_end <= BufferSize

WireType ==
    /\ sent \in Seq(Byte) /\ received \in Seq(Byte)
    /\ socket \in Seq(Byte) /\ Len(socket) <= Capacity
    /\ init_offset \in 0 .. StringLen

ReplyType == replies \in Seq(Reply)

Types == StateType /\ BufferType /\ WireType /\ ReplyType

LEMMA TypesOK == Types => TypeOK
<1> SUFFICES ASSUME Types PROVE TypeOK
  OBVIOUS
<1>1. \A i \in 1 .. Len(replies) : replies[i] \in Reply
  BY ElementOfSeq DEF Types, ReplyType
<1>2. DOMAIN to_server = 1 .. BufferSize
  BY DEF Types, BufferType
<1> QED
  BY <1>1, <1>2 DEF TypeOK, Types, StateType, BufferType, WireType

LEMMA InitType == Init => Types
<1> SUFFICES ASSUME Init PROVE Types
  OBVIOUS
<1>1. StateType
  BY DEF Init, StateType, Phase, scanner_init_state_t
<1>2. BufferType
  BY DEF Init, BufferType, NoByte, Byte
<1>3. WireType /\ ReplyType
  BY EmptySeq DEF Init, WireType, ReplyType
<1> QED
  BY <1>1, <1>2, <1>3 DEF Types

\* What write_string_to_server writes and returns.
LEMMA WriteType ==
    ASSUME NEW s \in Seq(Byte), NEW off \in Nat, NEW free \in Nat,
           Len(s) <= StringLen
    PROVE  /\ write_string_to_server(s, off, free) \in 0 .. StringLen
           /\ Bytes(s, off, free) \in Seq(Byte)
           /\ Len(Bytes(s, off, free)) <= free
<1>1. Len(s) \in Nat
  BY LenProperties
<1>2. Taken(s, off, free) \in Int /\ Taken(s, off, free) <= free
      /\ off + Taken(s, off, free) <= Len(s)
      /\ (Taken(s, off, free) # Len(s) - off => Taken(s, off, free) \in Nat)
  BY <1>1 DEF Taken, Least
<1>3. write_string_to_server(s, off, free) \in 0 .. StringLen
  BY <1>1, <1>2 DEF write_string_to_server
<1>4. /\ Bytes(s, off, free) \in Seq(Byte)
      /\ Len(Bytes(s, off, free)) <= free
  BY <1>2, Cut DEF Bytes
<1> QED
  BY <1>3, <1>4

\* WriteVersion, on an empty socket or on this one.
LEMMA WriteVersionType ==
    ASSUME StateType, WireType, NEW base \in Seq(Byte), Len(base) <= Capacity,
           WriteVersion(base)
    PROVE  /\ init_state' \in {"SENT_VERSION", "CONNECTED"}
           /\ socket' \in Seq(Byte) /\ Len(socket') <= Capacity
           /\ init_offset' \in 0 .. StringLen
<1> DEFINE free == Capacity - Len(base)
           first == write_string_to_server(Version, init_offset, free)
           wrote == Bytes(Version, init_offset, free)
           left == free - Len(wrote)
           rest == Bytes(NvtInfo, first, left)
<1>1. Len(base) \in Nat /\ free \in Nat /\ init_offset \in Nat
  BY LenProperties DEF WireType
<1>2. first \in 0 .. StringLen /\ wrote \in Seq(Byte) /\ Len(wrote) <= free
  BY <1>1, WriteType, Strings
<1>3. Len(wrote) \in Nat /\ left \in Nat /\ first \in Nat
  BY <1>1, <1>2, LenProperties
<1>4. /\ write_string_to_server(NvtInfo, first, left) \in 0 .. StringLen
      /\ rest \in Seq(Byte) /\ Len(rest) <= left
  BY <1>3, WriteType, Strings
<1>5. Len(rest) \in Nat
  BY <1>4, LenProperties
<1>6. /\ base \o wrote \in Seq(Byte) /\ Len(base \o wrote) = Len(base) + Len(wrote)
      /\ (base \o wrote) \o rest \in Seq(Byte)
      /\ Len((base \o wrote) \o rest) = Len(base) + Len(wrote) + Len(rest)
  BY <1>2, <1>4, Concat
<1>7. init_state' \in {"SENT_VERSION", "CONNECTED"}
  BY DEF WriteVersion
<1>8. CASE cache_mode
  <2>1. /\ socket' = (base \o wrote) \o rest
        /\ init_offset' = write_string_to_server(NvtInfo, first, left)
    BY <1>8 DEF WriteVersion
  <2> HIDE DEF free, first, wrote, left, rest
  <2> QED
    BY <1>1, <1>2, <1>3, <1>4, <1>5, <1>6, <1>7, <2>1 DEF free, left
<1>9. CASE ~cache_mode
  <2>1. socket' = base \o wrote /\ init_offset' = first
    BY <1>9 DEF WriteVersion
  <2> HIDE DEF free, first, wrote, left, rest
  <2> QED
    BY <1>1, <1>2, <1>3, <1>6, <1>7, <2>1 DEF free
<1> QED
  BY <1>8, <1>9 DEF StateType

LEMMA WriteStringType ==
    ASSUME WireType, NEW s \in Seq(Byte), Len(s) <= StringLen, NEW next,
           WriteString(s, next)
    PROVE  /\ init_state' \in {init_state, next}
           /\ socket' \in Seq(Byte) /\ Len(socket') <= Capacity
           /\ init_offset' \in 0 .. StringLen
<1>1. Len(socket) \in Nat /\ Free \in Nat /\ init_offset \in Nat
  BY LenProperties DEF WireType, Free
<1> DEFINE wrote == Bytes(s, init_offset, Free)
<1>2. /\ write_string_to_server(s, init_offset, Free) \in 0 .. StringLen
      /\ wrote \in Seq(Byte) /\ Len(wrote) <= Free
  BY <1>1, WriteType
<1>3. Len(wrote) \in Nat
  BY <1>2, LenProperties
<1>4. socket \o wrote \in Seq(Byte) /\ Len(socket \o wrote) = Len(socket) + Len(wrote)
  BY <1>2, Concat DEF WireType
<1>5. /\ socket' = socket \o wrote
      /\ init_offset' = write_string_to_server(s, init_offset, Free)
      /\ init_state' \in {init_state, next}
  BY DEF WriteString
<1> HIDE DEF wrote
<1> QED
  BY <1>1, <1>2, <1>3, <1>4, <1>5 DEF Free

\* What write_to_server_buffer takes from the buffer.
LEMMA BufferWrite ==
    ASSUME BufferType, WireType, write_to_server_buffer
    PROVE  \E n \in Nat :
              /\ n <= to_server_end - to_server_start /\ n <= Free
              /\ socket' \in Seq(Byte) /\ Len(socket') = Len(socket) + n
              /\ \A i \in 1 .. Len(socket) : socket'[i] = socket[i]
              /\ \A i \in 1 .. n : socket'[Len(socket) + i] = to_server[to_server_start + i]
              /\ \/ /\ to_server_start + n = to_server_end
                    /\ to_server_start' = 0 /\ to_server_end' = 0
                 \/ to_server_start' = to_server_start + n /\ to_server_end' = to_server_end
              /\ to_server' = to_server
<1> DEFINE n == Least(Free, to_server_end - to_server_start)
           cut == SubSeq(to_server, to_server_start + 1, to_server_start + n)
<1>1. Len(socket) \in Nat /\ Free \in Nat
  BY LenProperties DEF WireType, Free
<1>2. n \in Nat /\ n <= to_server_end - to_server_start /\ n <= Free
  BY <1>1 DEF Least, BufferType
<1>3. to_server \in Seq(Byte) /\ Len(to_server) = BufferSize
  BY LenProperties DEF BufferType
<1>4. socket' = socket \o cut
  BY DEF write_to_server_buffer
<1>5. /\ \/ /\ to_server_start + n = to_server_end
            /\ to_server_start' = 0 /\ to_server_end' = 0
         \/ to_server_start' = to_server_start + n /\ to_server_end' = to_server_end
      /\ to_server' = to_server
  BY DEF write_to_server_buffer
<1> HIDE DEF n
<1>6. /\ cut \in Seq(Byte) /\ Len(cut) = n
      /\ \A i \in 1 .. n : cut[i] = to_server[to_server_start + i]
  <2>1. to_server_start \in Nat /\ n \in Int /\ to_server_start + n <= Len(to_server)
    BY <1>2, <1>3 DEF BufferType
  <2>2. Len(cut) = IF n > 0 THEN n ELSE 0
    BY <1>3, <2>1, Cut
  <2>3. cut \in Seq(Byte) /\ \A i \in 1 .. n : cut[i] = to_server[to_server_start + i]
    BY <1>3, <2>1, Cut
  <2> HIDE DEF cut
  <2> QED
    BY <1>2, <2>2, <2>3
<1> HIDE DEF cut
<1>7. /\ socket' \in Seq(Byte) /\ Len(socket') = Len(socket) + n
      /\ \A i \in 1 .. Len(socket) : socket'[i] = socket[i]
      /\ \A i \in 1 .. n : socket'[Len(socket) + i] = to_server[to_server_start + i]
  <2>1. socket \in Seq(Byte) /\ cut \in Seq(Byte)
    BY <1>6 DEF WireType
  <2> DEFINE s == socket \o cut
  <2>2. /\ s \in Seq(Byte) /\ Len(s) = Len(socket) + Len(cut)
        /\ \A i \in 1 .. Len(socket) : s[i] = socket[i]
        /\ \A i \in 1 .. Len(cut) : s[Len(socket) + i] = cut[i]
    BY <2>1, Concat
  <2>3. socket' = s
    BY <1>4
  <2> HIDE DEF s
  <2> QED
    BY <1>6, <2>2, <2>3
<1> QED
  BY <1>2, <1>5, <1>7

\* What the last write takes from the buffer and the acknowledgement.
LEMMA ByeWrite ==
    ASSUME BufferType, WireType, ReadBye, to_server_end # BufferSize
    PROVE  \E n \in Nat :
              /\ n <= to_server_end - to_server_start + 1 /\ n <= Free
              /\ socket' \in Seq(Byte) /\ Len(socket') = Len(socket) + n
              /\ \A i \in 1 .. Len(socket) : socket'[i] = socket[i]
              /\ \A i \in 1 .. n : socket'[Len(socket) + i] =
                    IF i <= to_server_end - to_server_start
                    THEN to_server[to_server_start + i] ELSE Ack[1]
<1> DEFINE k == to_server_end - to_server_start
           part == SubSeq(to_server, to_server_start + 1, to_server_end)
           pending == part \o Ack
           n == Least(Free, Len(pending))
           cut == SubSeq(pending, 1, n)
<1>1. Len(socket) \in Nat /\ Free \in Nat /\ k \in Nat
  BY LenProperties DEF WireType, Free, BufferType
<1>2. to_server \in Seq(Byte) /\ Len(to_server) = BufferSize
  BY LenProperties DEF BufferType
<1>3. socket' = socket \o cut
  BY DEF ReadBye
<1>4. /\ part \in Seq(Byte) /\ Len(part) = k
      /\ \A i \in 1 .. k : part[i] = to_server[to_server_start + i]
  <2>1. to_server_start \in Nat /\ k \in Int /\ to_server_start + k <= Len(to_server)
        /\ to_server_start + k = to_server_end
    BY <1>1, <1>2 DEF BufferType
  <2> HIDE DEF k
  <2>2. Len(part) = IF k > 0 THEN k ELSE 0
    BY <1>2, <2>1, Cut
  <2>3. part \in Seq(Byte) /\ \A i \in 1 .. k : part[i] = to_server[to_server_start + i]
    BY <1>2, <2>1, Cut
  <2> HIDE DEF part
  <2> QED
    BY <1>1, <2>2, <2>3
<1> HIDE DEF part, k
<1>5. /\ pending \in Seq(Byte) /\ Len(pending) = k + 1
      /\ \A i \in 1 .. k : pending[i] = part[i]
      /\ pending[k + 1] = Ack[1]
  <2>1. part \in Seq(Byte) /\ Ack \in Seq(Byte)
    BY <1>4, Strings
  <2>2. /\ pending \in Seq(Byte) /\ Len(pending) = Len(part) + Len(Ack)
        /\ \A i \in 1 .. Len(part) : pending[i] = part[i]
        /\ \A i \in 1 .. Len(Ack) : pending[Len(part) + i] = Ack[i]
    BY <2>1, Concat
  <2>3. Len(part) = k /\ Len(Ack) = 1 /\ 1 \in 1 .. Len(Ack)
    BY <1>4, Strings
  <2> HIDE DEF pending
  <2> QED
    BY <2>2, <2>3
<1> HIDE DEF pending
<1>6. n \in Nat /\ n <= k + 1 /\ n <= Free
  BY <1>1, <1>5 DEF Least
<1> HIDE DEF n
<1>7. cut \in Seq(Byte) /\ Len(cut) = n /\ \A i \in 1 .. n : cut[i] = pending[i]
  <2>1. n \in Int /\ 0 + n <= Len(pending)
    BY <1>1, <1>5, <1>6
  <2>2. /\ SubSeq(pending, 0 + 1, 0 + n) \in Seq(Byte)
        /\ Len(SubSeq(pending, 0 + 1, 0 + n)) = IF n > 0 THEN n ELSE 0
        /\ \A i \in 1 .. n : SubSeq(pending, 0 + 1, 0 + n)[i] = pending[0 + i]
    BY <1>5, <2>1, Cut
  <2>3. 0 + 1 = 1 /\ 0 + n = n
    BY <1>6
  <2>4. cut = SubSeq(pending, 0 + 1, 0 + n)
    BY <2>3
  <2> HIDE DEF cut
  <2> QED
    BY <1>6, <2>2, <2>4
<1> HIDE DEF cut
<1>8. /\ socket' \in Seq(Byte) /\ Len(socket') = Len(socket) + n
      /\ \A i \in 1 .. Len(socket) : socket'[i] = socket[i]
      /\ \A i \in 1 .. n : socket'[Len(socket) + i] = cut[i]
  <2>1. socket \in Seq(Byte) /\ cut \in Seq(Byte)
    BY <1>7 DEF WireType
  <2> DEFINE s == socket \o cut
  <2>2. /\ s \in Seq(Byte) /\ Len(s) = Len(socket) + Len(cut)
        /\ \A i \in 1 .. Len(socket) : s[i] = socket[i]
        /\ \A i \in 1 .. Len(cut) : s[Len(socket) + i] = cut[i]
    BY <2>1, Concat
  <2>3. socket' = s
    BY <1>3
  <2> HIDE DEF s
  <2> QED
    BY <1>7, <2>2, <2>3
<1>9. \A i \in 1 .. n : cut[i] = IF i <= k THEN to_server[to_server_start + i] ELSE Ack[1]
  BY <1>1, <1>4, <1>5, <1>6, <1>7
<1> QED
  BY <1>6, <1>8, <1>9 DEF k

\* What the scanner reads.
LEMMA ReadsSome ==
    ASSUME WireType, ScannerReads
    PROVE  \E n \in 1 .. Len(socket) :
              /\ received' \in Seq(Byte) /\ Len(received') = Len(received) + n
              /\ \A i \in 1 .. Len(received) : received'[i] = received[i]
              /\ \A i \in 1 .. n : received'[Len(received) + i] = socket[i]
              /\ socket' \in Seq(Byte) /\ Len(socket') = Len(socket) - n
              /\ \A i \in 1 .. Len(socket) - n : socket'[i] = socket[n + i]
<1>1. PICK n \in 1 .. Len(socket) :
         /\ received' = received \o SubSeq(socket, 1, n)
         /\ socket' = SubSeq(socket, n + 1, Len(socket))
  BY DEF ScannerReads
<1>2. socket \in Seq(Byte) /\ received \in Seq(Byte) /\ Len(socket) \in Nat
      /\ n \in Nat /\ n <= Len(socket)
  BY LenProperties DEF WireType
<1> DEFINE cut == SubSeq(socket, 1, n)
           rest == SubSeq(socket, n + 1, Len(socket))
<1>3. cut \in Seq(Byte) /\ Len(cut) = n /\ \A i \in 1 .. n : cut[i] = socket[i]
  <2>1. \A i \in 1 .. n : socket[i] \in Byte
    BY <1>2, ElementOfSeq
  <2> QED
    BY <1>2, <2>1, SubSeqProperties
<1>4. /\ rest \in Seq(Byte) /\ Len(rest) = Len(socket) - n
      /\ \A i \in 1 .. Len(socket) - n : rest[i] = socket[n + i]
  <2>1. \A i \in (n + 1) .. Len(socket) : socket[i] \in Byte
    BY <1>2, ElementOfSeq
  <2> QED
    BY <1>2, <2>1, SubSeqProperties
<1>5. received' = received \o cut /\ socket' = rest
  BY <1>1
<1> HIDE DEF cut, rest
<1> DEFINE s == received \o cut
<1>0. received \in Seq(Byte) /\ cut \in Seq(Byte)
  BY <1>2, <1>3
<1>6. /\ s \in Seq(Byte) /\ Len(s) = Len(received) + Len(cut)
      /\ \A i \in 1 .. Len(received) : s[i] = received[i]
      /\ \A i \in 1 .. Len(cut) : s[Len(received) + i] = cut[i]
  BY <1>0, Concat
<1>7. received' = s
  BY <1>5
<1> HIDE DEF s
<1>8. /\ received' \in Seq(Byte) /\ Len(received') = Len(received) + n
      /\ \A i \in 1 .. Len(received) : received'[i] = received[i]
      /\ \A i \in 1 .. n : received'[Len(received) + i] = socket[i]
  BY <1>3, <1>6, <1>7
<1>9. /\ socket' \in Seq(Byte) /\ Len(socket') = Len(socket) - n
      /\ \A i \in 1 .. Len(socket) - n : socket'[i] = socket[n + i]
  BY <1>4, <1>5
<1> QED
  BY <1>8, <1>9

\* The steps that change only the state of the process.
LEMMA StateStepType ==
    ASSUME Types,
           \/ ConnectFails \/ InitFails \/ VerifyScanner
           \/ \E n \in Lens : QueueFull(n)
           \/ Serve \/ CacheEnds \/ EndOfFile \/ UNCHANGED vars
    PROVE  Types'
<1> USE DEF buffer, wire, peer, Types
<1>1. BufferType'
  BY DEF ConnectFails, InitFails, VerifyScanner, QueueFull, Serve, CacheEnds,
         EndOfFile, vars, BufferType
<1>2. ReplyType'
  BY DEF ConnectFails, InitFails, VerifyScanner, QueueFull, Serve, CacheEnds,
         EndOfFile, vars, ReplyType
<1>3. init_offset' \in 0 .. StringLen
  <2>1. CASE VerifyScanner
    <3>1. init_offset' = write_string_to_server(Version, init_offset, Capacity)
      BY <2>1 DEF VerifyScanner
    <3>2. init_offset \in Nat
      BY DEF WireType
    <3> QED
      BY <3>1, <3>2, WriteType, Strings
  <2>2. CASE ~VerifyScanner
    BY <2>2 DEF ConnectFails, InitFails, QueueFull, Serve, CacheEnds, EndOfFile, vars,
                WireType
  <2> QED
    BY <2>1, <2>2
<1>4. WireType'
  BY <1>3 DEF ConnectFails, InitFails, VerifyScanner, QueueFull, Serve, CacheEnds,
         EndOfFile, vars, WireType
<1>5. StateType'
  <2>1. CASE VerifyScanner
    <3>1. init_state' \in {"SENT_VERSION", "CONNECTED"} /\ phase' = phase
          /\ answer' = "ok" /\ up' = TRUE /\ tries > 0 /\ tries' = tries - 1
          /\ UNCHANGED << cache_mode, answered, bytes >>
      BY <2>1 DEF VerifyScanner, Try
    <3> QED
      BY <3>1 DEF StateType, scanner_init_state_t
  <2>2. CASE ConnectFails \/ InitFails
    <3>1. /\ tries > 0 /\ tries' = tries - 1 /\ answer' = "down" /\ up' \in BOOLEAN
          /\ UNCHANGED << cache_mode, phase, init_state, answered, bytes >>
      BY <2>2 DEF ConnectFails, InitFails, Try
    <3> QED
      BY <3>1 DEF StateType
  <2>3. CASE ~VerifyScanner /\ ~ConnectFails /\ ~InitFails
    BY <2>3 DEF QueueFull, Serve, CacheEnds, EndOfFile, vars, StateType, Phase
  <2> QED
    BY <2>1, <2>2, <2>3
<1> QED
  BY <1>1, <1>2, <1>4, <1>5

\* Connections are opened and closed.
LEMMA ConnectType ==
    ASSUME Types, Connect \/ Loading \/ AlreadyActive
    PROVE  Types'
<1> USE DEF buffer, wire, peer, Types
<1>1. BufferType'
  BY DEF Connect, Loading, AlreadyActive, BufferType
<1>2. ReplyType'
  BY EmptySeq DEF Connect, Opened, Loading, AlreadyActive, Closed, ReplyType
<1>3. CASE Connect
  <2>1. WriteVersion(<< >>)
    BY <1>3 DEF Connect, Opened
  <2>2. << >> \in Seq(Byte) /\ Len(<< >>) <= Capacity
    BY EmptySeq
  <2>3. /\ init_state' \in {"SENT_VERSION", "CONNECTED"}
        /\ socket' \in Seq(Byte) /\ Len(socket') <= Capacity
        /\ init_offset' \in 0 .. StringLen
    BY <2>1, <2>2, WriteVersionType
  <2>4. Version \o NvtInfo \in Seq(Byte) /\ Version \in Seq(Byte)
    BY Strings, Concat
  <2>5. sent' \in Seq(Byte) /\ received' \in Seq(Byte)
    BY <1>3, <2>4, EmptySeq DEF Connect, Opened
  <2>6. WireType'
    BY <2>3, <2>5 DEF WireType
  <2>7. StateType'
    BY <1>3, <2>3 DEF Connect, Opened, Try, StateType, Phase, scanner_init_state_t
  <2> QED
    BY <1>1, <1>2, <2>6, <2>7
<1>4. CASE Loading \/ AlreadyActive
  <2>1. WireType'
    <3>1. /\ sent' = << >> /\ received' = << >> /\ socket' = << >>
          /\ init_offset' = init_offset
      BY <1>4 DEF Loading, AlreadyActive, Closed
    <3>2. << >> \in Seq(Byte) /\ Len(<< >>) = 0
      BY EmptySeq
    <3> QED
      BY <3>1, <3>2 DEF WireType
  <2>2. StateType'
    BY <1>4 DEF Loading, AlreadyActive, Closed, StateType, Phase
  <2> QED
    BY <1>1, <1>2, <2>1, <2>2
<1> QED
  BY <1>3, <1>4

\* sendn_to_server.
LEMMA QueueType ==
    ASSUME Types, NEW n \in Lens, Queue(n)
    PROVE  Types'
<1> USE DEF peer, Types
<1>1. n \in Nat \ {0} /\ bytes \in Nat
  BY DEF StateType
<1>2. Command(n) \in Seq(Byte) /\ Len(Command(n)) = n
  BY <1>1, CommandType
<1>3. StateType'
  BY <1>1 DEF Queue, StateType
<1>4. ReplyType'
  BY DEF Queue, ReplyType
<1>5. WireType'
  <2>1. sent \in Seq(Byte) /\ Command(n) \in Seq(Byte)
    BY <1>2 DEF WireType
  <2>2. sent' = sent \o Command(n)
    BY DEF Queue, sendn_to_server
  <2>3. sent' \in Seq(Byte)
    BY <2>1, <2>2, Concat
  <2> QED
    BY <2>3 DEF Queue, WireType
<1>6. BufferType'
  <2>1. /\ BufferSize - to_server_end >= n /\ to_server_end' = to_server_end + n
        /\ to_server' = [i \in 1 .. BufferSize |->
                             IF i \in to_server_end + 1 .. to_server_end + n
                             THEN Command(n)[i - to_server_end] ELSE to_server[i]]
        /\ to_server_start' = to_server_start
    BY <1>2 DEF Queue, sendn_to_server
  <2>2. \A i \in to_server_end + 1 .. to_server_end + n :
            Command(n)[i - to_server_end] \in Byte
    BY <1>1, <1>2, ElementOfSeq DEF BufferType
  <2>3. to_server' \in [1 .. BufferSize -> Byte]
    BY <2>1, <2>2 DEF BufferType
  <2> QED
    BY <1>1, <2>1, <2>3 DEF BufferType
<1> QED
  BY <1>3, <1>4, <1>5, <1>6

\* openvas_scanner_write.
LEMMA WriteStepType ==
    ASSUME Types, Write
    PROVE  Types'
<1> USE DEF peer, Types
<1>1. ReplyType'
  BY DEF Write, ReplyType
<1>2. sent' = sent /\ received' = received
  BY DEF Write
<1>3. ASSUME init_state' \in scanner_init_state_t, init_state' # "TOP"
      PROVE  StateType'
  BY <1>3 DEF Write, StateType
<1>4. CASE init_state = "CONNECTED" /\ WriteVersion(socket) /\ UNCHANGED buffer
  <2>1. /\ init_state' \in {"SENT_VERSION", "CONNECTED"}
        /\ socket' \in Seq(Byte) /\ Len(socket') <= Capacity
        /\ init_offset' \in 0 .. StringLen
    BY <1>4, WriteVersionType DEF WireType
  <2>2. WireType' /\ BufferType'
    BY <1>2, <1>4, <2>1 DEF WireType, BufferType, buffer
  <2>3. StateType'
    BY <1>3, <2>1 DEF scanner_init_state_t
  <2> QED
    BY <1>1, <2>2, <2>3
<1>5. CASE /\ \/ WriteString(CompleteList, "SENT_COMPLETE_LIST")
              \/ WriteString(Ack, "DONE_CACHE_MODE")
           /\ init_state \in {"GOT_FEED_VERSION", "GOT_PLUGINS"} /\ UNCHANGED buffer
  <2>1. /\ init_state' \in {init_state, "SENT_COMPLETE_LIST", "DONE_CACHE_MODE"}
        /\ socket' \in Seq(Byte) /\ Len(socket') <= Capacity
        /\ init_offset' \in 0 .. StringLen
    <3>1. /\ CompleteList \in Seq(Byte) /\ Len(CompleteList) <= StringLen
          /\ Ack \in Seq(Byte) /\ Len(Ack) <= StringLen
      BY Strings
    <3> QED
      BY <1>5, <3>1, WriteStringType
  <2>2. WireType' /\ BufferType'
    BY <1>2, <1>5, <2>1 DEF WireType, BufferType, buffer
  <2>3. StateType'
    BY <1>3, <1>5, <2>1 DEF scanner_init_state_t
  <2> QED
    BY <1>1, <2>2, <2>3
<1>6. CASE /\ init_state \in {"DONE", "DONE_CACHE_MODE"} /\ write_to_server_buffer
           /\ UNCHANGED << init_state, init_offset >>
  <2>1. PICK n \in Nat :
              /\ n <= to_server_end - to_server_start /\ n <= Free
              /\ socket' \in Seq(Byte) /\ Len(socket') = Len(socket) + n
              /\ \/ /\ to_server_start + n = to_server_end
                    /\ to_server_start' = 0 /\ to_server_end' = 0
                 \/ to_server_start' = to_server_start + n /\ to_server_end' = to_server_end
              /\ to_server' = to_server
    BY <1>6, BufferWrite
  <2>2. Len(socket) \in Nat
    BY LenProperties DEF WireType
  <2>3. WireType'
    BY <1>2, <1>6, <2>1, <2>2 DEF WireType, Free
  <2>4. BufferType'
    BY <2>1 DEF BufferType
  <2>5. StateType'
    BY <1>3, <1>6 DEF scanner_init_state_t
  <2> QED
    BY <1>1, <2>3, <2>4, <2>5
<1> QED
  BY <1>4, <1>5, <1>6 DEF Write, openvas_scanner_write

\* process_otp_scanner_input.
LEMMA ReadType ==
    ASSUME Types,
           NotLoading \/ ReadVersion \/ ReadFeedVersion \/ ReadPlugins \/ ReadPreferences
    PROVE  Types'
<1> USE DEF Types, buffer, wire, Became
<1>1. ReplyType'
  <2>1. replies # << >> /\ replies' = Tail(replies)
    BY DEF NotLoading, ReadVersion, ReadFeedVersion, ReadPlugins, ReadPreferences
  <2>2. replies \in Seq(Reply)
    BY DEF ReplyType
  <2>3. Tail(replies) \in Seq(Reply)
    BY <2>1, <2>2, HeadTailProperties
  <2> QED
    BY <2>1, <2>3 DEF ReplyType
<1>2. BufferType'
  BY DEF NotLoading, ReadVersion, ReadFeedVersion, ReadPlugins, ReadPreferences, BufferType
<1>3. StateType'
  BY DEF NotLoading, ReadVersion, ReadFeedVersion, ReadPlugins, ReadPreferences,
         StateType, Phase, scanner_init_state_t
<1>4. sent' \in Seq(Byte)
  <2>1. sent \in Seq(Byte)
    BY DEF WireType
  <2>2. sent \o CompleteList \in Seq(Byte) /\ sent \o Ack \in Seq(Byte)
    BY <2>1, Strings, Concat
  <2>3. sent' \in {sent, sent \o CompleteList, sent \o Ack}
    BY DEF NotLoading, ReadVersion, ReadFeedVersion, ReadPlugins, ReadPreferences
  <2> QED
    BY <2>1, <2>2, <2>3
<1>5. WireType'
  BY <1>4 DEF NotLoading, ReadVersion, ReadFeedVersion, ReadPlugins, ReadPreferences,
              WireType
<1> QED
  BY <1>1, <1>2, <1>3, <1>5

LEMMA ByeType ==
    ASSUME Types, ReadBye
    PROVE  Types'
<1> USE DEF Types, buffer
<1>1. ReplyType'
  BY HeadTailProperties DEF ReadBye, ReplyType
<1>2. BufferType' /\ StateType'
  BY DEF ReadBye, BufferType, StateType, Phase
<1>3. CASE to_server_end = BufferSize
  BY <1>1, <1>2, <1>3 DEF ReadBye, WireType
<1>4. CASE to_server_end # BufferSize
  <2>1. PICK n \in Nat : /\ n <= Free /\ socket' \in Seq(Byte)
                         /\ Len(socket') = Len(socket) + n
    BY <1>4, ByeWrite
  <2>2. Len(socket) \in Nat
    BY LenProperties DEF WireType
  <2>3. sent \o Ack \in Seq(Byte)
    BY Strings, Concat DEF WireType
  <2>4. sent' \in Seq(Byte) /\ received' = received /\ init_offset' = init_offset
    BY <1>4, <2>3 DEF ReadBye
  <2>5. WireType'
    BY <2>1, <2>2, <2>4 DEF WireType, Free
  <2> QED
    BY <1>1, <1>2, <2>5
<1> QED
  BY <1>3, <1>4

\* The scanner.
LEMMA ScannerType ==
    ASSUME Types,
           \/ ScannerReads \/ AnswerVersion \/ AnswerLoading \/ AnswerNvtInfo
           \/ AnswerList \/ AnswerAck \/ ScannerBye
    PROVE  Types'
<1> USE DEF Types, buffer, peer, wire
<1>1. CASE ScannerReads
  <2>1. PICK n \in 1 .. Len(socket) :
              /\ received' \in Seq(Byte)
              /\ socket' \in Seq(Byte) /\ Len(socket') = Len(socket) - n
    BY <1>1, ReadsSome
  <2>2. Len(socket) \in Nat
    BY LenProperties DEF WireType
  <2>5. sent' = sent /\ init_offset' = init_offset
    BY <1>1 DEF ScannerReads
  <2>3. WireType'
    BY <2>1, <2>2, <2>5 DEF WireType
  <2>4. StateType' /\ BufferType' /\ ReplyType'
    BY <1>1 DEF ScannerReads, StateType, BufferType, ReplyType
  <2> QED
    BY <2>3, <2>4
<1>2. CASE ~ScannerReads
  <2>1. PICK r \in Reply : /\ replies' = Append(replies, r)
                           /\ answered' = answered + 1 /\ answered < 4
    BY <1>2 DEF AnswerVersion, AnswerLoading, AnswerNvtInfo, AnswerList, AnswerAck,
                ScannerBye, Answers, Reply, StateType
  <2>2. UNCHANGED << cache_mode, phase, init_state, init_offset, buffer, wire, up,
                     answer, tries, bytes >>
    BY <1>2 DEF AnswerVersion, AnswerLoading, AnswerNvtInfo, AnswerList, AnswerAck,
                ScannerBye, Answers
  <2>3. ReplyType'
    BY <2>1, AppendProperties DEF ReplyType
  <2>4. StateType'
    BY <2>1, <2>2 DEF StateType
  <2>5. BufferType' /\ WireType'
    BY <2>2 DEF BufferType, WireType
  <2> QED
    BY <2>3, <2>4, <2>5
<1> QED
  BY <1>1, <1>2

LEMMA NextType == Types /\ [Next]_vars => Types'
BY StateStepType, ConnectType, QueueType, WriteStepType, ReadType, ByeType, ScannerType
   DEF Next, ProcessStep

\* The type invariant holds: the bounds of the buffer stay in order and within
\* TO_SERVER_BUFFER_SIZE, the socket never holds more than fits, and the loop of
\* serve_gmp is never entered before the version was written.
THEOREM ConnectionTypeCorrect == Spec => []TypeOK
<1>1. Init => Types
  BY InitType
<1>2. Types /\ [Next]_vars => Types'
  BY NextType
<1>3. Types => TypeOK
  BY TypesOK
<1> QED
  BY <1>1, <1>2, <1>3, PTL DEF Spec

-----------------------------------------------------------------------------
(***************************************************************************)
(* The scanner reads what is meant for it.  What is on its way is in the   *)
(* socket and, behind it, in the buffer or in the string that the state of *)
(* the initialisation says to write next.                                  *)
(***************************************************************************)
Got == Len(received)
Held == Len(socket)
Said == Len(sent)
Pending == to_server_end - to_server_start

\* No string of the initialisation is written in part.
Whole == init_offset = 0 /\ init_state # "CONNECTED"

\* The scanner has read the first bytes of what is meant for it, and the socket
\* holds the next ones.
OnWire ==
    /\ Got + Held <= Said
    /\ \A i \in 1 .. Got : received[i] = sent[i]
    /\ \A i \in 1 .. Held : socket[i] = sent[Got + i]

\* The buffer holds the rest.
Buffered ==
    /\ Said = Got + Held + Pending
    /\ \A i \in 1 .. Pending :
           to_server[to_server_start + i] = sent[Got + Held + i]

\* Without a connection nothing is on its way; a session that can still connect
\* has an empty buffer.
SessionInv ==
    phase = "session" =>
        /\ sent = << >> /\ socket = << >> /\ received = << >>
        /\ init_state = "TOP" => to_server_start = to_server_end

\* The connection of a task carries the version and commands, so the scanner
\* answers no string of the NVT cache.
TaskInv ==
    ~cache_mode /\ Open =>
        /\ init_state = IF phase = "loading" THEN "SENT_VERSION" ELSE "DONE"
        /\ Buffered
        /\ \A i \in 1 .. Said : sent[i][1] \in {"version", "command"}
        /\ \A i \in 1 .. Len(replies) : replies[i] \in {"loading", "version", "bye"}

\* What the update of the NVT cache says, and how much of it in which state.
CacheByte(i) ==
    IF i <= StringLen THEN << "version", i >>
    ELSE IF i <= 2 * StringLen THEN << "nvt_info", i - StringLen >>
    ELSE IF i <= 3 * StringLen THEN << "complete_list", i - 2 * StringLen >>
    ELSE << "ack", i - 3 * StringLen >>

CacheSaid ==
    IF init_state \in {"SENT_VERSION", "DONE"} THEN 2 * StringLen
    ELSE IF init_state \in {"GOT_FEED_VERSION", "SENT_COMPLETE_LIST"} THEN 3 * StringLen
    ELSE 3 * StringLen + 1

\* A string is written when the scanner has read all that was said before it.
CacheInv ==
    cache_mode /\ Open =>
        /\ phase = "serve" /\ to_server_start = to_server_end
        /\ Said = CacheSaid
        /\ \A i \in 1 .. Said : sent[i] = CacheByte(i)
        /\ Got + Held = IF init_state = "GOT_FEED_VERSION" THEN 2 * StringLen
                   ELSE IF init_state = "GOT_PLUGINS" THEN 3 * StringLen
                   ELSE Said
        /\ init_state \in {"GOT_FEED_VERSION", "GOT_PLUGINS"} => Held = 0
        /\ \A i \in 1 .. Len(replies) :
               /\ replies[i] = "nvt_info" => Got >= 2 * StringLen
               /\ replies[i] = "plugin_list" => Got >= 3 * StringLen

OrderInv == Whole /\ OnWire /\ SessionInv /\ TaskInv /\ CacheInv

LEMMA Lengths ==
    ASSUME Types
    PROVE  /\ Got \in Nat /\ Held \in Nat /\ Said \in Nat /\ Pending \in Nat
           /\ to_server_start \in Nat /\ to_server_end \in Nat /\ Free \in Nat
BY LenProperties DEF Types, WireType, BufferType, Got, Held, Said, Pending, Free

\* A string that fits is written whole.
LEMMA WholeString ==
    ASSUME NEW s \in Seq(Byte), NEW free \in Nat, Len(s) <= free
    PROVE  write_string_to_server(s, 0, free) = 0 /\ Bytes(s, 0, free) = s
<1>1. Len(s) \in Nat
  BY LenProperties
<1>2. Taken(s, 0, free) = Len(s)
  BY <1>1 DEF Taken, Least
<1>3. write_string_to_server(s, 0, free) = 0
  BY <1>1, <1>2 DEF write_string_to_server
<1>4. Bytes(s, 0, free) = SubSeq(s, 0 + 1, 0 + Len(s))
  BY <1>2 DEF Bytes
<1>5. 0 + 1 = 1 /\ 0 + Len(s) = Len(s)
  BY <1>1
<1>6. Bytes(s, 0, free) = SubSeq(s, 1, Len(s))
  BY <1>4, <1>5
<1> QED
  BY <1>3, <1>6, SubSeqFull

\* A prefix, by its bytes.
LEMMA PrefixOf ==
    ASSUME NEW s \in Seq(Byte), NEW t \in Seq(Byte), Len(s) <= Len(t),
           \A i \in 1 .. Len(s) : s[i] = t[i]
    PROVE  Reads!Prefix(s, t)
<1> DEFINE cut == SubSeq(t, 1, Len(s))
<1>1. Len(s) \in Nat /\ Len(t) \in Nat
  BY LenProperties
<1>2. \A i \in 1 .. Len(s) : t[i] \in Byte
  BY <1>1, ElementOfSeq
<1>3. cut \in Seq(Byte) /\ Len(cut) = Len(s) /\ \A i \in 1 .. Len(s) : cut[i] = s[i]
  <2>1. /\ cut \in Seq(Byte) /\ Len(cut) = IF 1 <= Len(s) THEN Len(s) - 1 + 1 ELSE 0
        /\ \A i \in 1 .. Len(s) - 1 + 1 : cut[i] = t[1 + i - 1]
    BY <1>1, <1>2, SubSeqProperties
  <2> HIDE DEF cut
  <2> QED
    BY <1>1, <2>1
<1> HIDE DEF cut
<1>4. s = cut
  BY <1>3, SeqEqual
<1> QED
  BY <1>4 DEF cut, Reads!Prefix

\* What is appended leaves a prefix.
LEMMA PutPrefix ==
    ASSUME NEW s \in Seq(Byte), NEW t \in Seq(Byte)
    PROVE  Reads!Prefix(s, s \o t)
<1> DEFINE u == s \o t
<1>1. /\ u \in Seq(Byte) /\ Len(u) = Len(s) + Len(t)
      /\ \A i \in 1 .. Len(s) : u[i] = s[i]
  BY Concat
<1>2. Len(s) \in Nat /\ Len(t) \in Nat
  BY LenProperties
<1> HIDE DEF u
<1>3. Len(s) <= Len(u) /\ \A i \in 1 .. Len(s) : s[i] = u[i]
  BY <1>1, <1>2
<1>4. Reads!Prefix(s, u)
  BY <1>1, <1>3, PrefixOf
<1> QED
  BY <1>4 DEF u

\* What a step does to the stream.
Streams == [Reads!StreamNext]_<< sent, received >>

LEMMA InitOrder == Init => OrderInv /\ Reads!StreamInit
<1> SUFFICES ASSUME Init PROVE OrderInv /\ Reads!StreamInit
  OBVIOUS
<1>1. Len(<< >>) = 0
  BY EmptySeq
<1>2. Got = 0 /\ Held = 0 /\ Said = 0
  BY <1>1 DEF Init, Got, Held, Said
<1> QED
  BY <1>2 DEF Init, OrderInv, Whole, OnWire, SessionInv, TaskInv, CacheInv, Open,
              Reads!StreamInit

\* The steps that leave the bytes alone.
LEMMA IdleOrder ==
    ASSUME Types, OrderInv, Capacity >= 2 * StringLen,
           \/ ConnectFails \/ InitFails \/ VerifyScanner
           \/ \E n \in Lens : QueueFull(n)
           \/ Serve \/ CacheEnds \/ EndOfFile \/ UNCHANGED vars
    PROVE  OrderInv' /\ Streams
<1> USE DEF buffer, wire, peer
<1>1. UNCHANGED << cache_mode, to_server, to_server_start, to_server_end, sent, socket,
                   received, replies >>
  BY DEF ConnectFails, InitFails, VerifyScanner, QueueFull, Serve, CacheEnds, EndOfFile,
         vars
<1>2. UNCHANGED << Got, Held, Said, Pending >>
  BY <1>1 DEF Got, Held, Said, Pending
<1>3. OnWire' /\ (Buffered => Buffered')
  BY <1>1, <1>2 DEF OrderInv, OnWire, Buffered
<1>4. CASE VerifyScanner
  <2>1. init_offset' = 0 /\ init_state' = "SENT_VERSION"
    <3>1. write_string_to_server(Version, 0, Capacity) = 0
      BY Strings, WholeString
    <3> QED
      BY <1>4, <3>1 DEF VerifyScanner, OrderInv, Whole
  <2>2. phase = "session" /\ phase' = "session"
    BY <1>4 DEF VerifyScanner, Try
  <2> QED
    BY <1>1, <1>3, <2>1, <2>2
       DEF OrderInv, Whole, SessionInv, TaskInv, CacheInv, Open, Streams
<1>5. CASE ~VerifyScanner
  <2>1. /\ UNCHANGED << init_state, init_offset >>
        /\ \/ phase' = phase
           \/ phase' = "over"
           \/ phase = "queue" /\ phase' = "serve"
    BY <1>5 DEF ConnectFails, InitFails, QueueFull, Serve, CacheEnds, EndOfFile, vars, Try
  <2>2. CacheSaid' = CacheSaid
    BY <2>1 DEF CacheSaid
  <2>3. Whole' /\ SessionInv'
    BY <1>1, <2>1 DEF OrderInv, Whole, SessionInv
  <2>4. TaskInv'
    BY <1>1, <1>2, <1>3, <2>1 DEF OrderInv, TaskInv, Open
  <2>5. CacheInv'
    BY <1>1, <1>2, <2>1, <2>2 DEF OrderInv, CacheInv, Open
  <2> QED
    BY <1>1, <1>3, <2>3, <2>4, <2>5 DEF OrderInv, Streams
<1> QED
  BY <1>4, <1>5

\* Connections are opened and closed.
LEMMA CloseOrder ==
    ASSUME Types, OrderInv, Loading \/ AlreadyActive
    PROVE  OrderInv' /\ Streams
<1>1. /\ sent' = << >> /\ received' = << >> /\ socket' = << >> /\ phase' = "session"
      /\ init_state' = init_state /\ init_offset' = init_offset
      /\ phase \in {"loading", "queue"}
  BY DEF Loading, AlreadyActive, Closed
<1>2. init_state # "TOP"
  BY <1>1 DEF OrderInv, TaskInv, CacheInv, Open, Types, StateType
<1>3. Len(<< >>) = 0
  BY EmptySeq
<1>4. Got' = 0 /\ Held' = 0 /\ Said' = 0
  BY <1>1, <1>3 DEF Got, Held, Said
<1>5. OrderInv'
  BY <1>1, <1>2, <1>4 DEF OrderInv, Whole, OnWire, SessionInv, TaskInv, CacheInv, Open
<1>6. Reads!Open
  BY <1>1 DEF Reads!Open
<1> QED
  BY <1>5, <1>6 DEF Streams, Reads!StreamNext

\* The bytes of the first strings of the update of the NVT cache.
LEMMA CacheStart ==
    /\ Version \o NvtInfo \in Seq(Byte) /\ Len(Version \o NvtInfo) = 2 * StringLen
    /\ \A i \in 1 .. 2 * StringLen : (Version \o NvtInfo)[i] = CacheByte(i)
    /\ \A i \in 1 .. StringLen : Version[i] = << "version", i >>
<1> DEFINE s == Version \o NvtInfo
<1>0. Version \in Seq(Byte) /\ NvtInfo \in Seq(Byte)
  BY Strings
<1>1. Len(Version) = StringLen /\ Len(NvtInfo) = StringLen
  BY Strings
<1>2. /\ s \in Seq(Byte) /\ Len(s) = Len(Version) + Len(NvtInfo)
      /\ \A i \in 1 .. Len(Version) : s[i] = Version[i]
      /\ \A i \in 1 .. Len(NvtInfo) : s[Len(Version) + i] = NvtInfo[i]
  BY <1>0, Concat
<1>3. \A i \in 1 .. StringLen : Version[i] = << "version", i >>
  BY StringType DEF Version
<1>4. \A i \in 1 .. StringLen : NvtInfo[i] = << "nvt_info", i >>
  BY StringType DEF NvtInfo
<1> HIDE DEF s
<1>5. \A i \in 1 .. 2 * StringLen : s[i] = CacheByte(i)
  <2> SUFFICES ASSUME NEW i \in 1 .. 2 * StringLen PROVE s[i] = CacheByte(i)
    OBVIOUS
  <2>1. CASE i <= StringLen
    BY <1>1, <1>2, <1>3, <2>1 DEF CacheByte
  <2>2. CASE i > StringLen
    <3>1. i - StringLen \in 1 .. StringLen /\ StringLen + (i - StringLen) = i
      BY <2>2
    <3>2. s[StringLen + (i - StringLen)] = NvtInfo[i - StringLen]
      BY <1>1, <1>2, <3>1
    <3> QED
      BY <1>4, <2>2, <3>1, <3>2 DEF CacheByte
  <2> QED
    BY <2>1, <2>2
<1> QED
  BY <1>1, <1>2, <1>3, <1>5 DEF s

LEMMA ConnectOrder ==
    ASSUME Types, OrderInv, Capacity >= 2 * StringLen, Connect
    PROVE  OrderInv' /\ Streams
<1>1. /\ phase = "session" /\ init_state = "TOP" /\ init_offset = 0
      /\ sent = << >> /\ received = << >>
      /\ to_server_start = to_server_end
  BY DEF Connect, Try, Opened, OrderInv, Whole, SessionInv
<1>2. /\ WriteVersion(<< >>)
      /\ sent' = IF cache_mode THEN Version \o NvtInfo ELSE Version
      /\ received' = << >> /\ replies' = << >>
      /\ phase' = IF cache_mode THEN "serve" ELSE "loading"
      /\ UNCHANGED << cache_mode, to_server, to_server_start, to_server_end >>
  BY DEF Connect, Opened, buffer
<1>3. Len(<< >>) = 0 /\ << >> \in Seq(Byte)
  BY EmptySeq
<1>4. /\ write_string_to_server(Version, 0, Capacity) = 0
      /\ Bytes(Version, 0, Capacity) = Version
      /\ write_string_to_server(NvtInfo, 0, Capacity - StringLen) = 0
      /\ Bytes(NvtInfo, 0, Capacity - StringLen) = NvtInfo
  <2>1. Capacity \in Nat /\ Capacity - StringLen \in Nat
    OBVIOUS
  <2> QED
    BY <2>1, Strings, WholeString
<1>5. << >> \o Version = Version
  BY Strings, ConcatEmptySeq
<1>6. /\ init_state' = "SENT_VERSION" /\ init_offset' = 0
      /\ socket' = sent'
  <2>1. Capacity - 0 = Capacity /\ Len(Version) = StringLen
    BY Strings
  <2> QED
    BY <1>1, <1>2, <1>3, <1>4, <1>5, <2>1 DEF WriteVersion
<1>7. /\ Version \o NvtInfo \in Seq(Byte) /\ Len(Version \o NvtInfo) = 2 * StringLen
      /\ Version \in Seq(Byte) /\ Len(Version) = StringLen
  BY Strings, CacheStart
<1>8. sent' \in Seq(Byte) /\ Len(sent') \in Nat
      /\ Len(sent') = IF cache_mode THEN 2 * StringLen ELSE StringLen
  BY <1>2, <1>7
<1>9. Got' = 0 /\ Held' = Said' /\ Said' \in Nat /\ Pending' = 0
      /\ Said' = IF cache_mode THEN 2 * StringLen ELSE StringLen
  BY <1>1, <1>2, <1>3, <1>6, <1>8 DEF Got, Held, Said, Pending, Types, BufferType
<1>10. Whole' /\ SessionInv'
  BY <1>2, <1>6 DEF Whole, SessionInv
<1>11. OnWire' /\ Buffered'
  BY <1>6, <1>9 DEF OnWire, Buffered
<1>12. TaskInv'
  <2>1. ~cache_mode => \A i \in 1 .. Said' : sent'[i][1] \in {"version", "command"}
    BY <1>2, <1>9, CacheStart
  <2> QED
    BY <1>2, <1>3, <1>6, <1>11, <2>1 DEF TaskInv, Open
<1>13. CacheInv'
  <2>1. cache_mode => \A i \in 1 .. Said' : sent'[i] = CacheByte(i)
    BY <1>2, <1>9, CacheStart
  <2>2. CacheSaid' = 2 * StringLen
    BY <1>6 DEF CacheSaid
  <2>3. Len(replies') = 0
    BY <1>2, <1>3
  <2>4. ASSUME cache_mode' PROVE phase' = "serve" /\ Said' = 2 * StringLen
                                /\ \A i \in 1 .. Said' : sent'[i] = CacheByte(i)
    BY <1>2, <1>9, <2>1, <2>4
  <2>5. to_server_start' = to_server_end'
    BY <1>1, <1>2
  <2>6. init_state' = "SENT_VERSION" /\ Got' + Held' = Said'
    BY <1>6, <1>9
  <2> QED
    BY <2>2, <2>3, <2>4, <2>5, <2>6 DEF CacheInv, CacheByte
<1>14. Reads!Prefix(sent, sent')
  <2>1. << >> \o sent' = sent'
    BY <1>8, ConcatEmptySeq
  <2> QED
    BY <1>1, <1>3, <1>8, <2>1, PutPrefix
<1>15. Reads!Put
  BY <1>1, <1>2, <1>14 DEF Reads!Put
<1> QED
  BY <1>10, <1>11, <1>12, <1>13, <1>15 DEF OrderInv, Streams, Reads!StreamNext

\* What is appended to what is meant for the scanner leaves the wire as it was.
LEMMA SaidMore ==
    ASSUME Types, OnWire, NEW t \in Seq(Byte), sent' = sent \o t, received' = received
    PROVE  /\ Said' = Said + Len(t) /\ Len(t) \in Nat
           /\ \A i \in 1 .. Said : sent'[i] = sent[i]
           /\ \A i \in 1 .. Len(t) : sent'[Said + i] = t[i]
           /\ socket' = socket => OnWire'
           /\ Streams
<1>0. /\ Got \in Nat /\ Held \in Nat /\ Said \in Nat /\ Pending \in Nat
      /\ to_server_start \in Nat /\ to_server_end \in Nat
  BY Lengths
<1>1. sent \in Seq(Byte) /\ t \in Seq(Byte)
  BY DEF Types, WireType
<1> DEFINE s == sent \o t
<1>2. /\ s \in Seq(Byte) /\ Len(s) = Len(sent) + Len(t)
      /\ \A i \in 1 .. Len(sent) : s[i] = sent[i]
      /\ \A i \in 1 .. Len(t) : s[Len(sent) + i] = t[i]
  BY <1>1, Concat
<1>3. Reads!Prefix(sent, s)
  BY <1>1, PutPrefix
<1>4. sent' = s
  OBVIOUS
<1> HIDE DEF s
<1>5. /\ Said' = Said + Len(t) /\ Len(t) \in Nat
      /\ \A i \in 1 .. Said : sent'[i] = sent[i]
      /\ \A i \in 1 .. Len(t) : sent'[Said + i] = t[i]
  BY <1>2, <1>4, LenProperties DEF Said
<1>6. ASSUME socket' = socket PROVE OnWire'
  <2>1. Got' = Got /\ Held' = Held
    BY <1>6 DEF Got, Held
  <2>2. Got' + Held' <= Said'
    BY <1>0, <1>5, <2>1 DEF OnWire
  <2>3. \A i \in 1 .. Got' : received'[i] = sent'[i]
    <3> SUFFICES ASSUME NEW i \in 1 .. Got PROVE received[i] = sent'[i]
      BY <2>1
    <3>1. i \in 1 .. Said /\ received[i] = sent[i]
      BY <1>0 DEF OnWire
    <3> QED
      BY <1>5, <3>1
  <2>4. \A i \in 1 .. Held' : socket'[i] = sent'[Got' + i]
    <3> SUFFICES ASSUME NEW i \in 1 .. Held PROVE socket[i] = sent'[Got + i]
      BY <1>6, <2>1
    <3>1. Got + i \in 1 .. Said /\ socket[i] = sent[Got + i]
      BY <1>0 DEF OnWire
    <3> QED
      BY <1>5, <3>1
  <2> QED
    BY <2>2, <2>3, <2>4 DEF OnWire
<1>7. Streams
  BY <1>3, <1>4 DEF Streams, Reads!StreamNext, Reads!Put
<1> QED
  BY <1>5, <1>6, <1>7

LEMMA QueueOrder ==
    ASSUME Types, OrderInv, NEW n \in Lens, Queue(n)
    PROVE  OrderInv' /\ Streams
<1>0. /\ Got \in Nat /\ Held \in Nat /\ Said \in Nat /\ Pending \in Nat
      /\ to_server_start \in Nat /\ to_server_end \in Nat
  BY Lengths
<1>1. n \in Nat \ {0} /\ bytes \in Int
  BY DEF Types, StateType
<1>2. Command(n) \in Seq(Byte) /\ Len(Command(n)) = n
      /\ \A i \in 1 .. n : Command(n)[i][1] = "command"
  BY <1>1, CommandType
<1>3. /\ phase \in {"queue", "serve"} /\ ~cache_mode
      /\ UNCHANGED << cache_mode, phase, init_state, init_offset, socket, received, replies >>
      /\ sent' = sent \o Command(n)
  BY DEF Queue, sendn_to_server, peer
<1>4. /\ BufferSize - to_server_end >= n /\ to_server_end' = to_server_end + n
      /\ to_server' = [i \in 1 .. BufferSize |->
                           IF i \in to_server_end + 1 .. to_server_end + n
                           THEN Command(n)[i - to_server_end] ELSE to_server[i]]
      /\ to_server_start' = to_server_start
  BY <1>2 DEF Queue, sendn_to_server
<1>5. /\ init_state = "DONE" /\ Buffered
      /\ \A i \in 1 .. Said : sent[i][1] \in {"version", "command"}
      /\ \A i \in 1 .. Len(replies) : replies[i] \in {"loading", "version", "bye"}
  BY <1>3 DEF OrderInv, TaskInv, Open
<1>6. /\ Said' = Said + n
      /\ \A i \in 1 .. Said : sent'[i] = sent[i]
      /\ \A i \in 1 .. n : sent'[Said + i] = Command(n)[i]
      /\ OnWire' /\ Streams
  BY <1>2, <1>3, SaidMore DEF OrderInv
<1>7. Got' = Got /\ Held' = Held /\ Pending' = Pending + n
  BY <1>1, <1>3, <1>4, <1>0 DEF Got, Held, Pending
<1>8. Buffered'
  <2>1. Said' = Got' + Held' + Pending'
    BY <1>1, <1>5, <1>6, <1>7, <1>0 DEF Buffered
  <2>2. ASSUME NEW i \in 1 .. Pending'
        PROVE  to_server'[to_server_start' + i] = sent'[Got' + Held' + i]
    <3>1. CASE i <= Pending
      <4>1. i \in 1 .. Pending /\ to_server_start + i \in 1 .. to_server_end
        BY <3>1, <1>0, <1>1, <1>7 DEF Pending
      <4>2. to_server_start + i \notin to_server_end + 1 .. to_server_end + n
            /\ to_server_start + i \in 1 .. BufferSize
        BY <4>1, <1>0 DEF Types, BufferType
      <4>3. to_server'[to_server_start + i] = to_server[to_server_start + i]
        BY <1>4, <4>2
      <4>4. to_server[to_server_start + i] = sent[Got + Held + i]
        BY <1>5, <4>1 DEF Buffered
      <4>5. Got + Held + i \in 1 .. Said
        BY <1>5, <4>1, <1>0 DEF Buffered
      <4> QED
        BY <1>4, <1>6, <1>7, <4>3, <4>4, <4>5
    <3>2. CASE i > Pending
      <4> DEFINE j == i - Pending
      <4>1. j \in 1 .. n /\ Got + Held + i = Said + j
        BY <1>0, <1>1, <1>5, <1>7, <3>2 DEF Buffered
      <4>5. to_server_start + i = to_server_end + j
        BY <1>0 DEF Pending
      <4> HIDE DEF j
      <4>2. /\ to_server_end + j \in 1 .. BufferSize
            /\ to_server_end + j \in to_server_end + 1 .. to_server_end + n
            /\ (to_server_end + j) - to_server_end = j
        BY <1>1, <1>4, <4>1, <1>0
      <4>3. to_server'[to_server_end + j] = Command(n)[j]
        BY <1>4, <4>2
      <4>4. sent'[Said + j] = Command(n)[j]
        BY <1>6, <4>1
      <4> QED
        BY <1>4, <1>7, <4>1, <4>3, <4>4, <4>5
    <3> QED
      BY <1>1, <1>7, <3>1, <3>2, <1>0
  <2> QED
    BY <2>1, <2>2 DEF Buffered
<1>9. \A i \in 1 .. Said' : sent'[i][1] \in {"version", "command"}
  <2> SUFFICES ASSUME NEW i \in 1 .. Said' PROVE sent'[i][1] \in {"version", "command"}
    OBVIOUS
  <2>1. CASE i <= Said
    <3>1. i \in 1 .. Said
      BY <1>0, <1>1, <1>6, <2>1
    <3> QED
      BY <1>5, <1>6, <3>1
  <2>2. CASE i > Said
    <3>1. i - Said \in 1 .. n /\ Said + (i - Said) = i
      BY <1>1, <1>6, <2>2, <1>0
    <3> QED
      BY <1>2, <1>6, <3>1
  <2> QED
    BY <2>1, <2>2, <1>1, <1>6, <1>0
<1>10. TaskInv'
  BY <1>3, <1>5, <1>8, <1>9 DEF TaskInv
<1>11. Whole' /\ SessionInv' /\ CacheInv'
  BY <1>3 DEF OrderInv, Whole, SessionInv, CacheInv
<1> QED
  BY <1>6, <1>10, <1>11 DEF OrderInv

\* The bytes of the strings that follow.
LEMMA CacheRest ==
    /\ \A i \in 1 .. StringLen : CompleteList[i] = CacheByte(2 * StringLen + i)
    /\ Ack[1] = CacheByte(3 * StringLen + 1)
<1>1. \A i \in 1 .. StringLen : CompleteList[i] = << "complete_list", i >>
  BY StringType DEF CompleteList
<1>2. Ack[1] = << "ack", 1 >>
  BY StringType DEF Ack
<1>3. ASSUME NEW i \in 1 .. StringLen
      PROVE  CacheByte(2 * StringLen + i) = << "complete_list", i >>
  <2>1. ~(2 * StringLen + i <= StringLen) /\ ~(2 * StringLen + i <= 2 * StringLen)
        /\ 2 * StringLen + i <= 3 * StringLen /\ (2 * StringLen + i) - 2 * StringLen = i
    OBVIOUS
  <2> QED
    BY <2>1 DEF CacheByte
<1>4. CacheByte(3 * StringLen + 1) = << "ack", 1 >>
  <2>1. ~(3 * StringLen + 1 <= StringLen) /\ ~(3 * StringLen + 1 <= 2 * StringLen)
        /\ ~(3 * StringLen + 1 <= 3 * StringLen) /\ (3 * StringLen + 1) - 3 * StringLen = 1
    OBVIOUS
  <2> QED
    BY <2>1 DEF CacheByte
<1> QED
  BY <1>1, <1>2, <1>3, <1>4

\* A string of the initialisation that is written when the socket is empty.
LEMMA StringOrder ==
    ASSUME Types, OrderInv, Capacity >= 2 * StringLen, NEW s \in Seq(Byte),
           Len(s) <= StringLen, Held = 0, NEW next, WriteString(s, next)
    PROVE  socket' = s /\ init_offset' = 0 /\ init_state' = next
<1>1. Free = Capacity /\ init_offset = 0 /\ Capacity \in Nat /\ Len(s) <= Capacity
  <2>1. Len(s) \in Nat
    BY LenProperties
  <2> QED
    BY <2>1 DEF Free, Held, OrderInv, Whole
<1>2. write_string_to_server(s, 0, Capacity) = 0 /\ Bytes(s, 0, Capacity) = s
  BY <1>1, WholeString
<1>3. socket = << >>
  BY EmptySeq DEF Types, WireType, Held
<1>4. << >> \o s = s
  BY ConcatEmptySeq
<1> QED
  BY <1>1, <1>2, <1>3, <1>4 DEF WriteString

LEMMA WriteOrder ==
    ASSUME Types, OrderInv, Capacity >= 2 * StringLen, Write
    PROVE  OrderInv' /\ Streams
<1>0. /\ Got \in Nat /\ Held \in Nat /\ Said \in Nat /\ Pending \in Nat
      /\ to_server_start \in Nat /\ to_server_end \in Nat
  BY Lengths
<1>1. /\ phase = "serve"
      /\ UNCHANGED << cache_mode, phase, sent, received, replies >>
  BY DEF Write, peer
<1>2. Got' = Got /\ Said' = Said
  BY <1>1 DEF Got, Said
<1>3. Streams /\ SessionInv'
  BY <1>1 DEF Streams, SessionInv
<1>4. cache_mode \in BOOLEAN
  BY DEF Types, StateType
\* A string of the initialisation.
<1>5. ASSUME NEW s \in Seq(Byte), NEW next, Len(s) \in Nat, Len(s) <= StringLen,
             WriteString(s, next), UNCHANGED buffer,
             init_state \in {"GOT_FEED_VERSION", "GOT_PLUGINS"},
             Said = Got + Len(s),
             \A i \in 1 .. Len(s) : s[i] = CacheByte(Got + i),
             \/ init_state = "GOT_FEED_VERSION" /\ next = "SENT_COMPLETE_LIST"
             \/ init_state = "GOT_PLUGINS" /\ next = "DONE_CACHE_MODE"
      PROVE  OrderInv'
  <2>1. cache_mode
    BY <1>1, <1>4, <1>5 DEF OrderInv, TaskInv, Open
  <2>2. /\ to_server_start = to_server_end /\ Said = CacheSaid /\ Held = 0
        /\ \A i \in 1 .. Said : sent[i] = CacheByte(i)
        /\ \A i \in 1 .. Len(replies) :
               /\ replies[i] = "nvt_info" => Got >= 2 * StringLen
               /\ replies[i] = "plugin_list" => Got >= 3 * StringLen
    BY <1>1, <1>5, <2>1 DEF OrderInv, CacheInv, Open
  <2>3. socket' = s /\ init_offset' = 0 /\ init_state' = next
    BY <1>5, <2>2, StringOrder
  <2>4. Held' = Len(s) /\ Got' + Held' = Said'
    BY <1>2, <1>5, <2>3 DEF Held
  <2>5. Whole' /\ TaskInv'
    BY <1>1, <1>5, <2>1, <2>3 DEF Whole, TaskInv
  <2>6. OnWire'
    <3>1. \A i \in 1 .. Held' : socket'[i] = sent'[Got' + i]
      <4> SUFFICES ASSUME NEW i \in 1 .. Len(s) PROVE s[i] = sent[Got + i]
        BY <1>1, <1>2, <2>3, <2>4
      <4>1. Got + i \in 1 .. Said
        BY <1>0, <1>5
      <4> QED
        BY <1>5, <2>2, <4>1
    <3>2. \A i \in 1 .. Got' : received'[i] = sent'[i]
      BY <1>1, <1>2 DEF OrderInv, OnWire
    <3>3. Got' + Held' <= Said'
      BY <1>0, <1>2, <2>4
    <3> QED
      BY <3>1, <3>2, <3>3 DEF OnWire
  <2>7. CacheSaid' = CacheSaid
    BY <1>5, <2>3 DEF CacheSaid
  <2>8. init_state' \notin {"GOT_FEED_VERSION", "GOT_PLUGINS"}
    BY <1>5, <2>3
  <2>9. to_server_start' = to_server_end' /\ Said' = CacheSaid'
        /\ (\A i \in 1 .. Said' : sent'[i] = CacheByte(i))
        /\ \A i \in 1 .. Len(replies') :
               /\ replies'[i] = "nvt_info" => Got' >= 2 * StringLen
               /\ replies'[i] = "plugin_list" => Got' >= 3 * StringLen
    BY <1>1, <1>2, <1>5, <2>2, <2>7 DEF buffer
  <2>10. CacheInv'
    BY <1>1, <2>4, <2>8, <2>9 DEF CacheInv, CacheByte
  <2> QED
    BY <1>3, <2>5, <2>6, <2>10 DEF OrderInv
<1>6. CASE /\ init_state = "GOT_FEED_VERSION" /\ UNCHANGED buffer
           /\ WriteString(CompleteList, "SENT_COMPLETE_LIST")
  <2>1. cache_mode
    BY <1>1, <1>4, <1>6 DEF OrderInv, TaskInv, Open
  <2>2. Held = 0 /\ Got = 2 * StringLen /\ Said = 3 * StringLen
    BY <1>0, <1>1, <1>6, <2>1 DEF OrderInv, CacheInv, CacheSaid, Open
  <2>3. CompleteList \in Seq(Byte) /\ Len(CompleteList) = StringLen
    BY Strings
  <2>4. \A i \in 1 .. StringLen : CompleteList[i] = CacheByte(Got + i)
    BY <2>2, CacheRest
  <2>5. Said = Got + Len(CompleteList) /\ Len(CompleteList) \in Nat
        /\ Len(CompleteList) <= StringLen
    BY <2>2, <2>3
  <2> QED
    BY <1>3, <1>5, <1>6, <2>3, <2>4, <2>5
<1>7. CASE /\ init_state = "GOT_PLUGINS" /\ UNCHANGED buffer
           /\ WriteString(Ack, "DONE_CACHE_MODE")
  <2>1. cache_mode
    BY <1>1, <1>4, <1>7 DEF OrderInv, TaskInv, Open
  <2>2. Held = 0 /\ Got = 3 * StringLen /\ Said = 3 * StringLen + 1
    BY <1>0, <1>1, <1>7, <2>1 DEF OrderInv, CacheInv, CacheSaid, Open
  <2>3. Ack \in Seq(Byte) /\ Len(Ack) = 1
    BY Strings
  <2>4. \A i \in 1 .. 1 : Ack[i] = CacheByte(Got + i)
    <3>1. \A i \in 1 .. 1 : i = 1
      OBVIOUS
    <3> QED
      BY <2>2, <3>1, CacheRest
  <2>5. Said = Got + Len(Ack) /\ Len(Ack) \in Nat /\ Len(Ack) <= StringLen
    BY <2>2, <2>3
  <2> QED
    BY <1>3, <1>5, <1>7, <2>3, <2>4, <2>5
<1>8. CASE /\ init_state \in {"DONE", "DONE_CACHE_MODE"} /\ write_to_server_buffer
           /\ UNCHANGED << init_state, init_offset >>
  <2>1. Buffered
    <3>1. CASE cache_mode
      <4>1. to_server_start = to_server_end /\ Got + Held = Said
        BY <1>1, <1>8, <3>1 DEF OrderInv, CacheInv, Open
      <4>2. Pending = 0
        BY <1>0, <4>1 DEF Pending
      <4> QED
        BY <1>0, <4>1, <4>2 DEF Buffered
    <3>2. CASE ~cache_mode
      BY <1>1, <3>2 DEF OrderInv, TaskInv, Open
    <3> QED
      BY <1>4, <3>1, <3>2
  <2>2. PICK n \in Nat :
              /\ n <= to_server_end - to_server_start /\ n <= Free
              /\ socket' \in Seq(Byte) /\ Len(socket') = Len(socket) + n
              /\ \A i \in 1 .. Len(socket) : socket'[i] = socket[i]
              /\ \A i \in 1 .. n : socket'[Len(socket) + i] = to_server[to_server_start + i]
              /\ \/ /\ to_server_start + n = to_server_end
                    /\ to_server_start' = 0 /\ to_server_end' = 0
                 \/ to_server_start' = to_server_start + n /\ to_server_end' = to_server_end
              /\ to_server' = to_server
    BY <1>8, BufferWrite DEF Types
  <2>3. /\ n <= Pending /\ Held' = Held + n /\ Pending' = Pending - n
        /\ Pending' > 0 => to_server_start' = to_server_start + n
    BY <1>0, <2>2 DEF Held, Pending
  <2>4. /\ \A i \in 1 .. Held : socket'[i] = sent[Got + i]
        /\ \A i \in 1 .. n : socket'[Held + i] = sent[Got + Held + i]
    <3>1. \A i \in 1 .. n : i \in 1 .. Pending
      BY <1>0, <2>3
    <3>2. \A i \in 1 .. n : to_server[to_server_start + i] = sent[Got + Held + i]
      BY <2>1, <3>1 DEF Buffered
    <3>3. \A i \in 1 .. Held : socket[i] = sent[Got + i]
      BY DEF OrderInv, OnWire
    <3> QED
      BY <2>2, <3>2, <3>3 DEF Held
  <2>5. OnWire'
    <3>1. Got' + Held' <= Said'
      BY <1>0, <1>2, <2>1, <2>3 DEF Buffered
    <3>2. \A i \in 1 .. Got' : received'[i] = sent'[i]
      BY <1>1, <1>2 DEF OrderInv, OnWire
    <3>3. \A i \in 1 .. Held' : socket'[i] = sent'[Got' + i]
      <4> SUFFICES ASSUME NEW i \in 1 .. Held + n PROVE socket'[i] = sent[Got + i]
        BY <1>1, <1>2, <2>3
      <4>1. CASE i <= Held
        BY <1>0, <2>4, <4>1
      <4>2. CASE i > Held
        <5>1. i - Held \in 1 .. n /\ Held + (i - Held) = i
              /\ Got + Held + (i - Held) = Got + i
          BY <1>0, <4>2
        <5> QED
          BY <2>4, <5>1
      <4> QED
        BY <1>0, <4>1, <4>2
    <3> QED
      BY <3>1, <3>2, <3>3 DEF OnWire
  <2>6. Buffered'
    <3>1. Said' = Got' + Held' + Pending'
      BY <1>0, <1>2, <2>1, <2>3 DEF Buffered
    <3>2. ASSUME NEW i \in 1 .. Pending'
          PROVE  to_server'[to_server_start' + i] = sent'[Got' + Held' + i]
      <4>1. n + i \in 1 .. Pending /\ to_server_start' = to_server_start + n
        BY <1>0, <2>3
      <4>2. to_server[to_server_start + (n + i)] = sent[Got + Held + (n + i)]
        BY <2>1, <4>1 DEF Buffered
      <4>3. to_server_start' + i = to_server_start + (n + i)
            /\ Got' + Held' + i = Got + Held + (n + i)
        BY <1>0, <1>2, <2>3, <4>1
      <4> QED
        BY <1>1, <2>2, <4>2, <4>3
    <3> QED
      BY <3>1, <3>2 DEF Buffered
  <2>7. Whole' /\ TaskInv'
    BY <1>1, <1>2, <1>8, <2>6 DEF OrderInv, Whole, TaskInv, Open
  <2>8. CacheInv'
    <3>1. CacheSaid' = CacheSaid
      BY <1>8 DEF CacheSaid
    <3> SUFFICES ASSUME cache_mode PROVE CacheInv'
      BY <1>1 DEF CacheInv
    <3>2. to_server_start = to_server_end /\ Got + Held = Said /\ Said = CacheSaid
          /\ (\A i \in 1 .. Said : sent[i] = CacheByte(i))
          /\ \A i \in 1 .. Len(replies) :
               /\ replies[i] = "nvt_info" => Got >= 2 * StringLen
               /\ replies[i] = "plugin_list" => Got >= 3 * StringLen
      BY <1>1, <1>8 DEF OrderInv, CacheInv, Open
    <3>3. to_server_start' = to_server_end' /\ Held' = Held
      BY <1>0, <2>2, <2>3, <3>2 DEF Pending
    <3>4. init_state' \notin {"GOT_FEED_VERSION", "GOT_PLUGINS"}
      BY <1>8
    <3> QED
      BY <1>1, <1>2, <3>1, <3>2, <3>3, <3>4 DEF CacheInv, CacheByte
  <2> QED
    BY <1>3, <2>5, <2>7, <2>8 DEF OrderInv
<1>9. init_state # "CONNECTED"
  BY DEF OrderInv, Whole
<1> QED
  BY <1>3, <1>6, <1>7, <1>8, <1>9 DEF Write, openvas_scanner_write

\* What is left of the replies when the first one is read.
LEMMA TailReplies ==
    ASSUME Types, replies # << >>
    PROVE  /\ Len(replies) \in Nat /\ 1 \in 1 .. Len(replies) /\ Head(replies) = replies[1]
           /\ \A i \in 1 .. Len(Tail(replies)) :
                  \E j \in 1 .. Len(replies) : Tail(replies)[i] = replies[j]
<1>1. replies \in Seq(Reply)
  BY DEF Types, ReplyType
<1>2. Len(replies) \in Nat /\ Len(replies) # 0
  BY <1>1, LenProperties, EmptySeq
<1>3. /\ Len(Tail(replies)) = Len(replies) - 1
      /\ \A i \in 1 .. Len(Tail(replies)) : Tail(replies)[i] = replies[i + 1]
  BY <1>1, HeadTailProperties
<1>4. ASSUME NEW i \in 1 .. Len(Tail(replies))
      PROVE  \E j \in 1 .. Len(replies) : Tail(replies)[i] = replies[j]
  <2>1. i + 1 \in 1 .. Len(replies) /\ Tail(replies)[i] = replies[i + 1]
    BY <1>2, <1>3
  <2> QED
    BY <2>1
<1>5. Head(replies) = replies[1]
  BY <1>1 DEF Head
<1> QED
  BY <1>2, <1>4, <1>5

\* A string that the scanner's answer asks for: all that was said before has been
\* read.
LEMMA AskedOrder ==
    ASSUME Types, OrderInv, cache_mode, phase = "serve", Said = Got, Held = 0,
           NEW t \in Seq(Byte), sent' = sent \o t,
           \A i \in 1 .. Len(t) : t[i] = CacheByte(Said + i),
           replies # << >>, replies' = Tail(replies),
           UNCHANGED << cache_mode, phase, to_server_start, to_server_end, socket, received,
                        init_offset >>,
           \/ /\ init_state' = "GOT_FEED_VERSION" /\ Said = 2 * StringLen
              /\ Len(t) = StringLen
           \/ /\ init_state' = "GOT_PLUGINS" /\ Said = 3 * StringLen
              /\ Len(t) = 1
    PROVE  OrderInv' /\ Streams
<1>0. Got \in Nat /\ Held \in Nat /\ Said \in Nat
  BY Lengths
<1>1. Got' = Got /\ Held' = Held
  BY DEF Got, Held
<1>2. /\ Said' = Said + Len(t)
      /\ \A i \in 1 .. Said : sent'[i] = sent[i]
      /\ \A i \in 1 .. Len(t) : sent'[Said + i] = t[i]
      /\ OnWire' /\ Streams
  BY SaidMore DEF OrderInv
<1>3. Whole' /\ SessionInv' /\ TaskInv'
  BY DEF OrderInv, Whole, SessionInv, TaskInv
<1>4. /\ to_server_start = to_server_end
      /\ \A i \in 1 .. Said : sent[i] = CacheByte(i)
      /\ \A i \in 1 .. Len(replies) :
             /\ replies[i] = "nvt_info" => Got >= 2 * StringLen
             /\ replies[i] = "plugin_list" => Got >= 3 * StringLen
  BY DEF OrderInv, CacheInv, Open
<1>5. \A i \in 1 .. Said' : sent'[i] = CacheByte(i)
  <2> SUFFICES ASSUME NEW i \in 1 .. Said' PROVE sent'[i] = CacheByte(i)
    OBVIOUS
  <2>0. Len(t) \in Nat
    OBVIOUS
  <2>1. CASE i <= Said
    <3>1. i \in 1 .. Said
      BY <1>0, <1>2, <2>0, <2>1
    <3> QED
      BY <1>2, <1>4, <3>1
  <2>2. CASE i > Said
    <3>1. i - Said \in 1 .. Len(t) /\ Said + (i - Said) = i
      BY <1>0, <1>2, <2>0, <2>2
    <3>2. sent'[Said + (i - Said)] = t[i - Said] /\ t[i - Said] = CacheByte(Said + (i - Said))
      BY <1>2, <3>1
    <3> QED
      BY <3>1, <3>2
  <2> QED
    <3>1. Said' \in Nat
      BY <1>0, <1>2, <2>0
    <3>2. i \in Int
      BY <3>1
    <3>3. i <= Said \/ i > Said
      BY <1>0, <3>2
    <3> QED
      BY <2>1, <2>2, <3>3
<1>6. \A i \in 1 .. Len(replies') :
             /\ replies'[i] = "nvt_info" => Got' >= 2 * StringLen
             /\ replies'[i] = "plugin_list" => Got' >= 3 * StringLen
  BY <1>1, <1>4, TailReplies
<1>7. Said' = CacheSaid'
  <2>1. \/ init_state' = "GOT_FEED_VERSION" /\ Said' = 2 * StringLen + StringLen
        \/ init_state' = "GOT_PLUGINS" /\ Said' = 3 * StringLen + 1
    BY <1>2
  <2>2. 2 * StringLen + StringLen = 3 * StringLen
    OBVIOUS
  <2> QED
    BY <2>1, <2>2 DEF CacheSaid
<1>8. /\ Got' + Held' = IF init_state' = "GOT_FEED_VERSION" THEN 2 * StringLen
                        ELSE IF init_state' = "GOT_PLUGINS" THEN 3 * StringLen ELSE Said'
      /\ Held' = 0
  BY <1>0, <1>1
<1>9. CacheInv'
  BY <1>4, <1>5, <1>6, <1>7, <1>8 DEF CacheInv, CacheByte
<1> QED
  BY <1>2, <1>3, <1>9 DEF OrderInv

LEMMA ReadOrder ==
    ASSUME Types, OrderInv,
           NotLoading \/ ReadVersion \/ ReadFeedVersion \/ ReadPlugins \/ ReadPreferences
    PROVE  OrderInv' /\ Streams
<1>0. /\ Got \in Nat /\ Held \in Nat /\ Said \in Nat /\ Pending \in Nat
      /\ cache_mode \in BOOLEAN
  BY Lengths DEF Types, StateType
<1>1. replies # << >> /\ replies' = Tail(replies)
      /\ UNCHANGED << cache_mode, to_server, to_server_start, to_server_end, socket, received,
                      init_offset >>
  BY DEF NotLoading, ReadVersion, ReadFeedVersion, ReadPlugins, ReadPreferences, Became,
         buffer, wire
<1>2. Got' = Got /\ Held' = Held /\ Pending' = Pending
  BY <1>1 DEF Got, Held, Pending
<1>3. ASSUME sent' = sent
      PROVE  OnWire' /\ (Buffered => Buffered') /\ Said' = Said /\ Streams
  <2>1. Said' = Said
    BY <1>3 DEF Said
  <2> QED
    BY <1>1, <1>2, <1>3, <2>1 DEF OrderInv, OnWire, Buffered, Streams
<1>4. CASE NotLoading
  <2>1. /\ phase = "loading" /\ phase' = "queue" /\ sent' = sent
        /\ init_state' = "DONE"
    BY <1>4 DEF NotLoading, wire
  <2>2. ~cache_mode
    BY <1>0, <2>1 DEF OrderInv, CacheInv, Open
  <2>3. /\ Buffered
        /\ \A i \in 1 .. Said : sent[i][1] \in {"version", "command"}
        /\ \A i \in 1 .. Len(replies) : replies[i] \in {"loading", "version", "bye"}
    BY <2>1, <2>2 DEF OrderInv, TaskInv, Open
  <2>4. \A i \in 1 .. Len(replies') : replies'[i] \in {"loading", "version", "bye"}
    BY <1>1, <2>3, TailReplies
  <2>5. \A i \in 1 .. Said' : sent'[i][1] \in {"version", "command"}
    BY <1>3, <2>1, <2>3
  <2>6. TaskInv' /\ CacheInv' /\ SessionInv' /\ Whole'
    BY <1>1, <1>3, <2>1, <2>2, <2>3, <2>4, <2>5
       DEF TaskInv, CacheInv, SessionInv, Whole, OrderInv
  <2> QED
    BY <1>3, <2>1, <2>6 DEF OrderInv
<1>5. CASE ReadVersion
  <2>1. /\ phase = "serve" /\ phase' = "serve" /\ sent' = sent
        /\ init_state = "SENT_VERSION" /\ init_state' = "DONE"
    BY <1>5 DEF ReadVersion, Became
  <2>2. cache_mode
    BY <1>0, <2>1 DEF OrderInv, TaskInv, Open
  <2>3. /\ to_server_start = to_server_end /\ Said = CacheSaid /\ Got + Held = Said
        /\ \A i \in 1 .. Said : sent[i] = CacheByte(i)
        /\ \A i \in 1 .. Len(replies) :
               /\ replies[i] = "nvt_info" => Got >= 2 * StringLen
               /\ replies[i] = "plugin_list" => Got >= 3 * StringLen
    BY <2>1, <2>2 DEF OrderInv, CacheInv, Open
  <2>4. \A i \in 1 .. Len(replies') :
               /\ replies'[i] = "nvt_info" => Got' >= 2 * StringLen
               /\ replies'[i] = "plugin_list" => Got' >= 3 * StringLen
    BY <1>1, <1>2, <2>3, TailReplies
  <2>5. CacheSaid' = CacheSaid
    BY <2>1 DEF CacheSaid
  <2>6. /\ Said' = CacheSaid' /\ Got' + Held' = Said'
        /\ \A i \in 1 .. Said' : sent'[i] = CacheByte(i)
    BY <1>2, <1>3, <2>1, <2>3, <2>5
  <2>7. CacheInv'
    BY <1>1, <2>1, <2>3, <2>4, <2>6 DEF CacheInv, CacheByte
  <2>8. TaskInv' /\ SessionInv' /\ Whole'
    BY <1>1, <2>1, <2>2 DEF TaskInv, SessionInv, Whole, OrderInv
  <2> QED
    BY <1>3, <2>1, <2>7, <2>8 DEF OrderInv
<1>6. CASE ReadFeedVersion
  <2>1. /\ phase = "serve" /\ phase' = phase /\ sent' = sent \o CompleteList
        /\ init_state = "DONE" /\ init_state' = "GOT_FEED_VERSION"
        /\ replies[1] = "nvt_info" /\ 1 \in 1 .. Len(replies)
    BY <1>1, <1>6, TailReplies DEF ReadFeedVersion, Became
  <2>2. cache_mode
    BY <1>0, <2>1 DEF OrderInv, TaskInv, Open
  <2>3. Said = 2 * StringLen /\ Got + Held = Said /\ Got >= 2 * StringLen
    BY <2>1, <2>2 DEF OrderInv, CacheInv, CacheSaid, Open
  <2>4. Said = Got /\ Held = 0
    BY <1>0, <2>3
  <2>5. CompleteList \in Seq(Byte) /\ Len(CompleteList) = StringLen
        /\ \A i \in 1 .. Len(CompleteList) : CompleteList[i] = CacheByte(Said + i)
    BY <2>3, CacheRest, Strings
  <2> QED
    BY <1>1, <2>1, <2>2, <2>3, <2>4, <2>5, AskedOrder
<1>7. CASE ReadPlugins
  <2>1. /\ phase = "serve" /\ phase' = phase /\ sent' = sent \o Ack
        /\ init_state = "SENT_COMPLETE_LIST" /\ init_state' = "GOT_PLUGINS"
        /\ replies[1] = "plugin_list" /\ 1 \in 1 .. Len(replies)
    BY <1>1, <1>7, TailReplies DEF ReadPlugins, Became
  <2>2. cache_mode
    BY <1>0, <2>1 DEF OrderInv, TaskInv, Open
  <2>3. Said = 3 * StringLen /\ Got + Held = Said /\ Got >= 3 * StringLen
    BY <2>1, <2>2 DEF OrderInv, CacheInv, CacheSaid, Open
  <2>4. Said = Got /\ Held = 0
    BY <1>0, <2>3
  <2>5. Ack \in Seq(Byte) /\ Len(Ack) = 1
        /\ \A i \in 1 .. Len(Ack) : Ack[i] = CacheByte(Said + i)
    <3>1. \A i \in 1 .. 1 : i = 1
      OBVIOUS
    <3> QED
      BY <2>3, <3>1, CacheRest, Strings
  <2> QED
    BY <1>1, <2>1, <2>2, <2>3, <2>4, <2>5, AskedOrder
<1>8. CASE ReadPreferences
  <2>1. phase' = "over" /\ sent' = sent /\ init_state' = "DONE"
    BY <1>8 DEF ReadPreferences, Became
  <2>2. TaskInv' /\ CacheInv' /\ SessionInv' /\ Whole'
    BY <1>1, <2>1 DEF TaskInv, CacheInv, SessionInv, Whole, OrderInv, Open
  <2> QED
    BY <1>3, <2>1, <2>2 DEF OrderInv
<1> QED
  BY <1>4, <1>5, <1>6, <1>7, <1>8

\* acknowledge_bye and the last write.
LEMMA ByeOrder ==
    ASSUME Types, OrderInv, ReadBye
    PROVE  OrderInv' /\ Streams
<1>0. /\ Got \in Nat /\ Held \in Nat /\ Said \in Nat /\ Pending \in Nat
      /\ cache_mode \in BOOLEAN
  BY Lengths DEF Types, StateType
<1>1. /\ phase = "serve" /\ init_state = "DONE" /\ phase' = "over"
      /\ UNCHANGED << init_state, init_offset, received >>
  BY DEF ReadBye
<1>2. Whole' /\ SessionInv' /\ TaskInv' /\ CacheInv'
  BY <1>1 DEF OrderInv, Whole, SessionInv, TaskInv, CacheInv, Open
<1>3. Got' = Got
  BY <1>1 DEF Got
<1>4. CASE to_server_end = BufferSize
  <2>1. sent' = sent /\ socket' = socket
    BY <1>4 DEF ReadBye
  <2>2. Held' = Held /\ Said' = Said
    BY <2>1 DEF Held, Said
  <2>3. OnWire' /\ Streams
    BY <1>1, <1>3, <2>1, <2>2 DEF OrderInv, OnWire, Streams
  <2> QED
    BY <1>2, <2>3 DEF OrderInv
<1>5. CASE to_server_end # BufferSize
  <2>1. sent' = sent \o Ack
    BY <1>5 DEF ReadBye
  <2>2. Ack \in Seq(Byte) /\ Len(Ack) = 1 /\ 1 \in 1 .. 1
    BY Strings
  <2>3. /\ Said' = Said + 1 /\ Streams
        /\ \A i \in 1 .. Said : sent'[i] = sent[i]
        /\ sent'[Said + 1] = Ack[1]
    BY <1>1, <2>1, <2>2, SaidMore DEF OrderInv
  <2>4. Buffered
    <3>1. CASE cache_mode
      <4>1. to_server_start = to_server_end /\ Got + Held = Said
        BY <1>1, <3>1 DEF OrderInv, CacheInv, Open
      <4>2. Pending = 0
        BY <4>1, Lengths DEF Pending
      <4> QED
        BY <1>0, <4>1, <4>2 DEF Buffered
    <3>2. CASE ~cache_mode
      BY <1>1, <3>2 DEF OrderInv, TaskInv, Open
    <3> QED
      BY <1>0, <3>1, <3>2
  <2>5. PICK n \in Nat :
              /\ n <= to_server_end - to_server_start + 1 /\ n <= Free
              /\ socket' \in Seq(Byte) /\ Len(socket') = Len(socket) + n
              /\ \A i \in 1 .. Len(socket) : socket'[i] = socket[i]
              /\ \A i \in 1 .. n : socket'[Len(socket) + i] =
                    IF i <= to_server_end - to_server_start
                    THEN to_server[to_server_start + i] ELSE Ack[1]
    BY <1>5, ByeWrite DEF Types
  <2>6. /\ n <= Pending + 1 /\ Held' = Held + n
        /\ \A i \in 1 .. Held : socket'[i] = socket[i]
        /\ \A i \in 1 .. n : socket'[Held + i] =
                    IF i <= Pending THEN to_server[to_server_start + i] ELSE Ack[1]
    BY <2>5 DEF Held, Pending
  <2>7. Said = Got + Held + Pending
    BY <2>4 DEF Buffered
  <2>8. Got' + Held' <= Said'
    BY <1>0, <1>3, <2>3, <2>6, <2>7
  <2>9. \A i \in 1 .. Got' : received'[i] = sent'[i]
    <3> SUFFICES ASSUME NEW i \in 1 .. Got PROVE received[i] = sent'[i]
      BY <1>1, <1>3
    <3>1. i \in 1 .. Said /\ received[i] = sent[i]
      BY <1>0, <2>7 DEF OrderInv, OnWire
    <3> QED
      BY <2>3, <3>1
  <2>10. \A i \in 1 .. Held' : socket'[i] = sent'[Got' + i]
    <3> SUFFICES ASSUME NEW i \in 1 .. Held + n PROVE socket'[i] = sent'[Got + i]
      BY <1>3, <2>6
    <3>1. CASE i <= Held
      <4>1. i \in 1 .. Held /\ Got + i \in 1 .. Said
        BY <1>0, <2>7, <3>1
      <4>2. socket[i] = sent[Got + i]
        BY <4>1 DEF OrderInv, OnWire
      <4> QED
        BY <2>3, <2>6, <4>1, <4>2
    <3>2. CASE i > Held
      <4> DEFINE j == i - Held
      <4>1. j \in 1 .. n /\ Held + j = i /\ Got + Held + j = Got + i
        BY <1>0, <3>2
      <4> HIDE DEF j
      <4>2. socket'[Held + j] = IF j <= Pending THEN to_server[to_server_start + j] ELSE Ack[1]
        BY <2>6, <4>1
      <4>3. CASE j <= Pending
        <5>1. j \in 1 .. Pending /\ Got + Held + j \in 1 .. Said
          BY <1>0, <2>7, <4>1, <4>3
        <5>2. to_server[to_server_start + j] = sent[Got + Held + j]
          BY <2>4, <5>1 DEF Buffered
        <5> QED
          BY <2>3, <4>1, <4>2, <4>3, <5>1, <5>2
      <4>4. CASE j > Pending
        <5>1. Got + i = Said + 1 /\ ~(j <= Pending)
          BY <1>0, <2>6, <2>7, <4>1, <4>4
        <5> QED
          BY <2>3, <4>1, <4>2, <5>1
      <4> QED
        BY <1>0, <4>1, <4>3, <4>4
    <3> QED
      BY <1>0, <3>1, <3>2
  <2>11. OnWire'
    BY <2>8, <2>9, <2>10 DEF OnWire
  <2> QED
    BY <1>2, <2>3, <2>11 DEF OrderInv
<1> QED
  BY <1>4, <1>5

LEMMA ScannerReadsOrder ==
    ASSUME Types, OrderInv, ScannerReads
    PROVE  OrderInv' /\ Streams
<1>0. /\ Got \in Nat /\ Held \in Nat /\ Said \in Nat /\ Pending \in Nat
  BY Lengths
<1>1. UNCHANGED << cache_mode, phase, init_state, init_offset, to_server,
                   to_server_start, to_server_end, sent, replies >>
  BY DEF ScannerReads, buffer, peer
<1>2. Said' = Said /\ Pending' = Pending /\ CacheSaid' = CacheSaid
  BY <1>1 DEF Said, Pending, CacheSaid
<1>3. PICK n \in 1 .. Len(socket) :
              /\ received' \in Seq(Byte) /\ Len(received') = Len(received) + n
              /\ \A i \in 1 .. Len(received) : received'[i] = received[i]
              /\ \A i \in 1 .. n : received'[Len(received) + i] = socket[i]
              /\ socket' \in Seq(Byte) /\ Len(socket') = Len(socket) - n
              /\ \A i \in 1 .. Len(socket) - n : socket'[i] = socket[n + i]
  BY ReadsSome DEF Types
<1>4. /\ n \in Nat /\ n > 0 /\ n <= Held
      /\ Got' = Got + n /\ Held' = Held - n /\ Got' + Held' = Got + Held
  BY <1>0, <1>3 DEF Got, Held
<1>5. /\ \A i \in 1 .. Got : received'[i] = received[i]
      /\ \A i \in 1 .. n : received'[Got + i] = socket[i]
      /\ \A i \in 1 .. Held - n : socket'[i] = socket[n + i]
  BY <1>3 DEF Got, Held
<1>6. Got + Held <= Said
  BY DEF OrderInv, OnWire
<1>7. \A i \in 1 .. Got' : received'[i] = sent[i]
  <2> SUFFICES ASSUME NEW i \in 1 .. Got + n PROVE received'[i] = sent[i]
    BY <1>4
  <2>1. CASE i <= Got
    <3>1. i \in 1 .. Got
      BY <1>0, <2>1
    <3> QED
      BY <1>5, <3>1 DEF OrderInv, OnWire
  <2>2. CASE i > Got
    <3>1. i - Got \in 1 .. n /\ i - Got \in 1 .. Held /\ Got + (i - Got) = i
      BY <1>0, <1>4, <2>2
    <3>2. received'[Got + (i - Got)] = socket[i - Got]
      BY <1>5, <3>1
    <3>3. socket[i - Got] = sent[Got + (i - Got)]
      BY <3>1 DEF OrderInv, OnWire
    <3> QED
      BY <3>1, <3>2, <3>3
  <2> QED
    BY <1>0, <1>4, <2>1, <2>2
<1>8. \A i \in 1 .. Held' : socket'[i] = sent[Got' + i]
  <2> SUFFICES ASSUME NEW i \in 1 .. Held - n PROVE socket'[i] = sent[(Got + n) + i]
    BY <1>4
  <2>1. n + i \in 1 .. Held /\ (Got + n) + i = Got + (n + i)
    BY <1>0, <1>4
  <2>2. socket[n + i] = sent[Got + (n + i)]
    BY <2>1 DEF OrderInv, OnWire
  <2> QED
    BY <1>5, <2>1, <2>2
<1>9. OnWire'
  BY <1>1, <1>2, <1>4, <1>6, <1>7, <1>8 DEF OnWire
<1>10. Whole'
  BY <1>1 DEF OrderInv, Whole
<1>11. phase # "session"
  <2> SUFFICES ASSUME phase = "session" PROVE FALSE
    OBVIOUS
  <2>1. socket = << >>
    BY DEF OrderInv, SessionInv
  <2> QED
    BY <1>4, <2>1, EmptySeq DEF Held
<1>12. TaskInv'
  <2>1. Buffered => Buffered'
    BY <1>1, <1>2, <1>4 DEF Buffered
  <2> QED
    BY <1>1, <1>2, <2>1 DEF OrderInv, TaskInv, Open
<1>13. CacheInv'
  <2> SUFFICES ASSUME cache_mode, Open PROVE CacheInv'
    BY <1>1 DEF CacheInv, Open
  <2>1. init_state \notin {"GOT_FEED_VERSION", "GOT_PLUGINS"}
    BY <1>0, <1>4 DEF OrderInv, CacheInv
  <2>2. /\ phase = "serve" /\ to_server_start = to_server_end
        /\ Said = CacheSaid /\ Got + Held = Said
        /\ \A i \in 1 .. Said : sent[i] = CacheByte(i)
        /\ \A i \in 1 .. Len(replies) :
               /\ replies[i] = "nvt_info" => Got >= 2 * StringLen
               /\ replies[i] = "plugin_list" => Got >= 3 * StringLen
    BY <2>1 DEF OrderInv, CacheInv
  <2>3. \A i \in 1 .. Len(replies') :
               /\ replies'[i] = "nvt_info" => Got' >= 2 * StringLen
               /\ replies'[i] = "plugin_list" => Got' >= 3 * StringLen
    BY <1>0, <1>1, <1>4, <2>2
  <2>4. /\ Said' = CacheSaid' /\ Got' + Held' = Said'
        /\ \A i \in 1 .. Said' : sent'[i] = CacheByte(i)
    BY <1>1, <1>2, <1>4, <2>2
  <2> QED
    BY <1>1, <2>1, <2>2, <2>3, <2>4 DEF CacheInv, CacheByte
<1>14. Reads!Deliver
  <2>1. /\ received \in Seq(Byte) /\ received' \in Seq(Byte) /\ sent \in Seq(Byte)
        /\ Len(received) <= Len(received') /\ Len(received') <= Len(sent)
    BY <1>0, <1>3, <1>4, <1>6 DEF Types, WireType, Got, Said
  <2>2. Reads!Prefix(received, received')
    BY <1>3, <2>1, PrefixOf
  <2>3. \A i \in 1 .. Len(received') : received'[i] = sent[i]
    BY <1>7 DEF Got
  <2>4. Reads!Prefix(received', sent)
    BY <2>1, <2>3, PrefixOf
  <2> QED
    BY <1>1, <2>2, <2>4 DEF Reads!Deliver
<1> QED
  BY <1>1, <1>9, <1>10, <1>11, <1>12, <1>13, <1>14
     DEF OrderInv, SessionInv, Streams, Reads!StreamNext

\* The scanner answers a string of the initialisation when it has read its last
\* byte, and in the update of the NVT cache that byte has one place.
LEMMA AnswerOrder ==
    ASSUME Types, OrderInv,
           \/ AnswerVersion \/ AnswerLoading \/ AnswerNvtInfo
           \/ AnswerList \/ AnswerAck \/ ScannerBye
    PROVE  OrderInv' /\ Streams
<1>0. /\ Got \in Nat /\ Held \in Nat /\ Said \in Nat /\ Pending \in Nat
      /\ cache_mode \in BOOLEAN
  BY Lengths DEF Types, StateType
<1>1. /\ Open
      /\ UNCHANGED << cache_mode, phase, init_state, init_offset, to_server,
                      to_server_start, to_server_end, sent, socket, received >>
  BY DEF AnswerVersion, AnswerLoading, AnswerNvtInfo, AnswerList, AnswerAck, ScannerBye,
         Answers, buffer, wire, Open
<1>2. UNCHANGED << Got, Held, Said, Pending, CacheSaid, Buffered, OnWire >>
  BY <1>1 DEF Got, Held, Said, Pending, CacheSaid, Buffered, OnWire
<1>3. Whole' /\ SessionInv' /\ OnWire' /\ Streams
  BY <1>1, <1>2 DEF OrderInv, Whole, SessionInv, Streams
<1>4. PICK r \in Reply :
         /\ replies' = Append(replies, r)
         /\ r \in {"loading", "version", "nvt_info", "plugin_list", "preferences", "bye"}
         /\ r = "nvt_info" => \E i \in 1 .. Got : received[i] = NvtInfo[Len(NvtInfo)]
         /\ r = "plugin_list" =>
                \E i \in 1 .. Got : received[i] = CompleteList[Len(CompleteList)]
         /\ r = "preferences" => \E i \in 1 .. Got : received[i] = Ack[Len(Ack)]
  BY DEF AnswerVersion, AnswerLoading, AnswerNvtInfo, AnswerList, AnswerAck, ScannerBye,
         Answers, Reply, Got
<1>5. /\ Len(replies) \in Nat /\ Len(replies') = Len(replies) + 1
      /\ \A i \in 1 .. Len(replies) : replies'[i] = replies[i]
      /\ replies'[Len(replies) + 1] = r
  BY <1>4, AppendProperties, LenProperties DEF Types, ReplyType
<1>6. \A i \in 1 .. Len(replies') : i \in 1 .. Len(replies) \/ i = Len(replies) + 1
  BY <1>5
<1>7. /\ NvtInfo[Len(NvtInfo)] = << "nvt_info", StringLen >>
      /\ CompleteList[Len(CompleteList)] = << "complete_list", StringLen >>
      /\ Ack[Len(Ack)] = << "ack", 1 >>
  <2>1. StringLen \in 1 .. StringLen /\ 1 \in 1 .. 1
    OBVIOUS
  <2>2. Len(NvtInfo) = StringLen /\ Len(CompleteList) = StringLen /\ Len(Ack) = 1
    BY Strings
  <2>3. NvtInfo[StringLen] = << "nvt_info", StringLen >>
    BY <2>1, StringType DEF NvtInfo
  <2>4. CompleteList[StringLen] = << "complete_list", StringLen >>
    BY <2>1, StringType DEF CompleteList
  <2>5. Ack[1] = << "ack", 1 >>
    BY <2>1, StringType DEF Ack
  <2> QED
    BY <2>2, <2>3, <2>4, <2>5
<1>8. \A i \in 1 .. Got : i \in 1 .. Said /\ received[i] = sent[i]
  BY <1>0 DEF OrderInv, OnWire
<1>9. CASE ~cache_mode
  <2>1. /\ Buffered
        /\ init_state = IF phase = "loading" THEN "SENT_VERSION" ELSE "DONE"
        /\ \A i \in 1 .. Said : sent[i][1] \in {"version", "command"}
        /\ \A i \in 1 .. Len(replies) : replies[i] \in {"loading", "version", "bye"}
    BY <1>1, <1>9 DEF OrderInv, TaskInv
  <2>2. \A i \in 1 .. Got : received[i][1] \in {"version", "command"}
    BY <1>8, <2>1
  <2>3. r \in {"loading", "version", "bye"}
    <3>1. /\ << "nvt_info", StringLen >>[1] = "nvt_info" /\ << "ack", 1 >>[1] = "ack"
          /\ << "complete_list", StringLen >>[1] = "complete_list"
      OBVIOUS
    <3> QED
      BY <1>4, <1>7, <2>2, <3>1
  <2>4. \A i \in 1 .. Len(replies') : replies'[i] \in {"loading", "version", "bye"}
    BY <1>5, <1>6, <2>1, <2>3
  <2>5. \A i \in 1 .. Said' : sent'[i][1] \in {"version", "command"}
    BY <1>1, <1>2, <2>1
  <2>6. TaskInv'
    BY <1>1, <1>2, <2>1, <2>4, <2>5 DEF TaskInv
  <2>7. CacheInv'
    BY <1>1, <1>9 DEF CacheInv
  <2> QED
    BY <1>3, <2>6, <2>7 DEF OrderInv
<1>10. CASE cache_mode
  <2>1. CacheInv /\ \A i \in 1 .. Said : sent[i] = CacheByte(i)
    BY <1>1, <1>10 DEF OrderInv, CacheInv
  <2>2. \A i \in 1 .. Len(replies) :
               /\ replies[i] = "nvt_info" => Got >= 2 * StringLen
               /\ replies[i] = "plugin_list" => Got >= 3 * StringLen
    BY <1>1, <1>10 DEF OrderInv, CacheInv
  <2>3. ASSUME r = "nvt_info" PROVE Got >= 2 * StringLen
    <3>1. PICK i \in 1 .. Got : received[i] = << "nvt_info", StringLen >>
      BY <1>4, <1>7, <2>3
    <3>2. CacheByte(i) = << "nvt_info", StringLen >>
      BY <1>8, <2>1, <3>1
    <3>3. i = 2 * StringLen
      BY <1>0, <3>2 DEF CacheByte
    <3> QED
      BY <1>0, <3>3
  <2>4. ASSUME r = "plugin_list" PROVE Got >= 3 * StringLen
    <3>1. PICK i \in 1 .. Got : received[i] = << "complete_list", StringLen >>
      BY <1>4, <1>7, <2>4
    <3>2. CacheByte(i) = << "complete_list", StringLen >>
      BY <1>8, <2>1, <3>1
    <3>3. i = 3 * StringLen
      BY <1>0, <3>2 DEF CacheByte
    <3> QED
      BY <1>0, <3>3
  <2>5. \A i \in 1 .. Len(replies') :
               /\ replies'[i] = "nvt_info" => Got' >= 2 * StringLen
               /\ replies'[i] = "plugin_list" => Got' >= 3 * StringLen
    BY <1>2, <1>5, <1>6, <2>2, <2>3, <2>4
  <2>6. \A i \in 1 .. Said' : sent'[i] = CacheByte(i)
    BY <1>1, <1>2, <2>1
  <2>7. CacheInv'
    BY <1>1, <1>2, <1>10, <2>1, <2>5, <2>6 DEF CacheInv, CacheByte, Open
  <2>8. TaskInv'
    BY <1>1, <1>10 DEF TaskInv
  <2> QED
    BY <1>3, <2>7, <2>8 DEF OrderInv
<1> QED
  BY <1>0, <1>9, <1>10

LEMMA NextOrder ==
    ASSUME Types, OrderInv, Capacity >= 2 * StringLen, [Next]_vars
    PROVE  OrderInv' /\ Streams
BY IdleOrder, CloseOrder, ConnectOrder, QueueOrder, WriteOrder, ReadOrder, ByeOrder,
   ScannerReadsOrder, AnswerOrder
   DEF Next, ProcessStep

\* The scanner reads exactly what is meant for it, every byte once and in order,
\* for every size of the buffer and however the socket cuts the writes from it, as
\* long as an empty socket takes the two strings of the greeting.  The code relies on
\* that: write_string_to_server returns how much this call wrote, not where it got
\* to, and NVT_INFO is written from the offset that the version left behind.
THEOREM ScannerReadsInOrder ==
    ASSUME Capacity >= 2 * StringLen
    PROVE  Spec => InOrder
<1>1. Init => Types /\ OrderInv /\ Reads!StreamInit
  BY InitType, InitOrder
<1>2. Types /\ OrderInv /\ [Next]_vars => (Types /\ OrderInv)'
  BY NextType, NextOrder
<1>3. Types /\ OrderInv /\ [Next]_vars => [Reads!StreamNext]_<< sent, received >>
  BY NextOrder DEF Streams
<1> QED
  BY <1>1, <1>2, <1>3, PTL DEF Spec, InOrder, Reads!Stream

=============================================================================
