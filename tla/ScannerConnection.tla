-------------------------- MODULE ScannerConnection --------------------------
(***************************************************************************)
(* The connection of one gvmd process to an OTP scanner: how it is opened, *)
(* initialised, used and closed, with the bytes that are written to it.    *)
(*                                                                         *)
(* The socket does not block: a write takes what fits.  The strings of the *)
(* initialisation are written directly, at scanner_init_offset; everything *)
(* after it goes through the to_server buffer.  The process is a session   *)
(* of a client, which becomes the handler of a scan when it starts a task, *)
(* or (cache_mode) the process that updates the NVT cache.  The sequence of *)
(* a session is: connect and init, see whether the scanner is loading, and *)
(* fork; the child queues the task, serves the scanner and ends.           *)
(***************************************************************************)
EXTENDS Integers, Sequences

CONSTANTS
    BufferSize,   \* TO_SERVER_BUFFER_SIZE
    Capacity,     \* how many bytes the socket holds
    StringLen,    \* length of the version and the other strings but the ACK
    Lens,         \* lengths of the commands that are queued
    MaxTries,     \* how often the session connects
    MaxBytes,     \* how many bytes of commands are queued
    Faults        \* what may fail

ASSUME ConnectionBoundAssumption ==
    /\ {BufferSize, Capacity, StringLen} \subseteq Nat \ {0}
    /\ Lens \subseteq Nat \ {0}
    /\ MaxTries \in Nat /\ MaxBytes \in Nat
ASSUME ConnectionFaultAssumption ==
    Faults \subseteq {"down", "loading", "active", "eof"}

VARIABLES
    cache_mode,      \* gmpd_nvt_cache_mode: the process updates the NVT cache
    phase,           \* where the process is
    init_state,      \* scanner_init_state
    init_offset,     \* scanner_init_offset
    to_server,       \* the buffer
    to_server_start,
    to_server_end,
    sent,            \* the bytes meant for the scanner on this connection
    socket,          \* the bytes in the socket
    received,        \* the bytes that the scanner has read
    replies,         \* what the scanner has sent and gvmd has not read
    answered,        \* how many strings of the initialisation it answered
    up,              \* how the scanner was at the last connect
    answer,          \* how the last attempt to use the scanner ended
    tries,           \* attempts left
    bytes            \* bytes of commands left

buffer == << to_server, to_server_start, to_server_end >>
wire == << sent, socket, received >>
peer == << replies, answered >>
vars == << cache_mode, phase, init_state, init_offset, buffer, wire, peer, up, answer,
           tries, bytes >>

scanner_init_state_t ==
    { "TOP", "CONNECTED", "SENT_VERSION", "GOT_FEED_VERSION",
      "SENT_COMPLETE_LIST", "GOT_PLUGINS", "DONE", "DONE_CACHE_MODE" }

Reply == { "loading", "version", "nvt_info", "plugin_list", "preferences", "bye" }

(***************************************************************************)
(* Phases:                                                                 *)
(*   session   not connected                                               *)
(*   loading   connected, in openvas_scanner_is_loading                    *)
(*   queue     the child of run_otp_task, queueing the task                *)
(*   serve     in the loop of serve_gmp                                    *)
(*   over      the process has ended                                       *)
(***************************************************************************)
Phase == { "session", "loading", "queue", "serve", "over" }

\* A byte is known by the string that it belongs to and its place in it.
String(name, n) == [i \in 1 .. n |-> << name, i >>]
Version == String("version", StringLen)
NvtInfo == String("nvt_info", StringLen)
CompleteList == String("complete_list", StringLen)
Ack == String("ack", 1)

NoByte == << "none", 0 >>
Free == Capacity - Len(socket)
Least(a, b) == IF a < b THEN a ELSE b

\* The type invariant.  The buffer's bounds are in order.
TypeOK ==
    /\ cache_mode \in BOOLEAN
    /\ phase \in Phase
    /\ init_state \in scanner_init_state_t
    /\ init_offset \in 0 .. StringLen
    /\ 0 <= to_server_start /\ to_server_start <= to_server_end
    /\ to_server_end <= BufferSize
    /\ DOMAIN to_server = 1 .. BufferSize
    /\ Len(socket) <= Capacity
    /\ \A i \in 1 .. Len(replies) : replies[i] \in Reply
    /\ answered \in 0 .. 4
    /\ up \in BOOLEAN
    /\ answer \in {"none", "ok", "down", "loading"}
    /\ tries \in 0 .. MaxTries
    /\ bytes \in 0 .. MaxBytes
    /\ phase = "serve" => init_state # "TOP"

Init ==
    /\ cache_mode \in BOOLEAN
    /\ phase = "session"
    /\ init_state = "TOP" /\ init_offset = 0
    /\ to_server = [i \in 1 .. BufferSize |-> NoByte]
    /\ to_server_start = 0 /\ to_server_end = 0
    /\ sent = << >> /\ socket = << >> /\ received = << >>
    /\ replies = << >> /\ answered = 0
    /\ up = TRUE /\ answer = "none"
    /\ tries = MaxTries /\ bytes = MaxBytes

-----------------------------------------------------------------------------
(***************************************************************************)
(* write_string_to_server, from an offset into the string: how much the    *)
(* socket takes, and what the function returns (0 for everything, and for  *)
(* nothing).                                                               *)
(***************************************************************************)
Taken(string, offset, free) == Least(free, Len(string) - offset)
write_string_to_server(string, offset, free) ==
    IF Taken(string, offset, free) = Len(string) - offset
    THEN 0
    ELSE Taken(string, offset, free)
Bytes(string, offset, free) ==
    SubSeq(string, offset + 1, offset + Taken(string, offset, free))

(***************************************************************************)
(* The cases of openvas_scanner_write.  Each appends to a socket (base) and*)
(* to what is meant for the scanner.                                       *)
(***************************************************************************)
\* CONNECTED: the version and, for the NVT cache, the request for its version.
WriteVersion(base) ==
    LET free == Capacity - Len(base)
        first == write_string_to_server(Version, init_offset, free)
        wrote == Bytes(Version, init_offset, free)
        second == write_string_to_server(NvtInfo, first, free - Len(wrote))
    IN /\ init_state' = IF first = 0 THEN "SENT_VERSION" ELSE "CONNECTED"
       /\ IF cache_mode
          THEN /\ socket' = base \o wrote
                                 \o Bytes(NvtInfo, first, free - Len(wrote))
               /\ init_offset' = second
          ELSE socket' = base \o wrote /\ init_offset' = first

\* GOT_FEED_VERSION, GOT_PLUGINS: one string, and the state that follows.
WriteString(string, next) ==
    LET r == write_string_to_server(string, init_offset, Free)
    IN /\ socket' = socket \o Bytes(string, init_offset, Free)
       /\ init_offset' = r
       /\ init_state' = IF r = 0 THEN next ELSE init_state

\* Mutant: after a partial write the buffer is written from its start again.
write_to_server_buffer_Again ==
    LET n == Least(Free, to_server_end - to_server_start)
    IN /\ socket' = socket \o SubSeq(to_server, to_server_start + 1,
                                     to_server_start + n)
       /\ IF to_server_start + n = to_server_end
          THEN to_server_start' = 0 /\ to_server_end' = 0
          ELSE UNCHANGED << to_server_start, to_server_end >>
       /\ UNCHANGED to_server

\* DONE: write_to_server_buffer, until it is empty or the socket is full.
write_to_server_buffer ==
    LET n == Least(Free, to_server_end - to_server_start)
    IN /\ socket' = socket \o SubSeq(to_server, to_server_start + 1,
                                     to_server_start + n)
       /\ IF to_server_start + n = to_server_end
          THEN to_server_start' = 0 /\ to_server_end' = 0
          ELSE /\ to_server_start' = to_server_start + n
               /\ UNCHANGED to_server_end
       /\ UNCHANGED to_server

\* Mutant: the acknowledgement of the plugin list is forgotten.
openvas_scanner_write_NoAck ==
    \/ /\ init_state = "CONNECTED"
       /\ WriteVersion(socket)
       /\ UNCHANGED buffer
    \/ /\ init_state = "GOT_FEED_VERSION"
       /\ WriteString(CompleteList, "SENT_COMPLETE_LIST")
       /\ UNCHANGED buffer
    \/ /\ init_state \in {"DONE", "DONE_CACHE_MODE"}
       /\ write_to_server_buffer
       /\ UNCHANGED << init_state, init_offset >>

openvas_scanner_write ==
    \/ /\ init_state = "CONNECTED"
       /\ WriteVersion(socket)
       /\ UNCHANGED buffer
    \/ /\ init_state = "GOT_FEED_VERSION"
       /\ WriteString(CompleteList, "SENT_COMPLETE_LIST")
       /\ UNCHANGED buffer
    \/ /\ init_state = "GOT_PLUGINS"
       /\ WriteString(Ack, "DONE_CACHE_MODE")
       /\ UNCHANGED buffer
    \/ /\ init_state \in {"DONE", "DONE_CACHE_MODE"}
       /\ write_to_server_buffer
       /\ UNCHANGED << init_state, init_offset >>

-----------------------------------------------------------------------------
(***************************************************************************)
(* Connecting.  openvas_scanner_connect and openvas_scanner_init: only in  *)
(* SCANNER_INIT_TOP does openvas_scanner_write do the initialisation step  *)
(* that init expects; in every other state init gives the connection up.   *)
(***************************************************************************)
Opened ==
    /\ init_state \in {"TOP", "CONNECTED"}
    /\ WriteVersion(<< >>)
    /\ sent' = IF cache_mode THEN Version \o NvtInfo ELSE Version
    /\ received' = << >> /\ replies' = << >> /\ answered' = 0

Closed ==
    /\ socket' = << >> /\ sent' = << >> /\ received' = << >>
    /\ replies' = << >> /\ answered' = 0

Try == phase = "session" /\ tries > 0 /\ tries' = tries - 1

ConnectFails ==
    /\ "down" \in Faults
    /\ Try
    /\ answer' = "down" /\ up' = FALSE
    /\ UNCHANGED << cache_mode, phase, init_state, init_offset, buffer,
                    wire, peer, bytes >>

InitFails ==
    /\ Try
    /\ init_state \notin {"TOP", "CONNECTED"}
    /\ answer' = "down" /\ up' = TRUE
    /\ UNCHANGED << cache_mode, phase, init_state, init_offset, buffer,
                    wire, peer, bytes >>

\* run_otp_task, or serve_gmp when it updates the NVT cache.
Connect ==
    /\ Try
    /\ Opened
    /\ phase' = IF cache_mode THEN "serve" ELSE "loading"
    /\ answer' = "none" /\ up' = TRUE
    /\ UNCHANGED << cache_mode, buffer, bytes >>

\* verify_scanner connects and closes.
VerifyScanner ==
    /\ ~cache_mode
    /\ Try
    /\ init_state \in {"TOP", "CONNECTED"}
    /\ LET r == write_string_to_server(Version, init_offset, Capacity)
       IN /\ init_offset' = r
          /\ init_state' = IF r = 0 THEN "SENT_VERSION" ELSE "CONNECTED"
    /\ answer' = "ok" /\ up' = TRUE
    /\ UNCHANGED << cache_mode, phase, buffer, wire, peer, bytes >>

-----------------------------------------------------------------------------
(***************************************************************************)
(* openvas_scanner_is_loading.                                             *)
(***************************************************************************)
\* The scanner says so, or nothing within the attempts.
Loading ==
    /\ phase = "loading"
    /\ IF replies = << >> THEN init_state = "SENT_VERSION"
       ELSE Head(replies) = "loading"
    /\ Closed
    /\ phase' = "session" /\ answer' = "loading"
    /\ UNCHANGED << cache_mode, init_state, init_offset, buffer, up, tries,
                    bytes >>

NotLoading ==
    /\ phase = "loading"
    /\ replies # << >> /\ Head(replies) = "version"
    /\ replies' = Tail(replies)
    /\ init_state' = "DONE"
    /\ phase' = "queue" /\ answer' = "ok"
    /\ UNCHANGED << cache_mode, init_offset, buffer, wire, answered, up,
                    tries, bytes >>

\* The task is active already: the command fails, and the next one closes
\* the connection (openvas_scanner_set_unix) before it connects.
AlreadyActive ==
    /\ "active" \in Faults
    /\ phase = "queue" /\ sent = Version
    /\ Closed
    /\ phase' = "session" /\ answer' = "ok"
    /\ UNCHANGED << cache_mode, init_state, init_offset, buffer, up, tries,
                    bytes >>

-----------------------------------------------------------------------------
(***************************************************************************)
(* sendn_to_server.                                                        *)
(***************************************************************************)
\* Mutant: the room is checked by what is pending (to_server_buffer_space).
sendn_to_server_Pending(string) ==
    LET n == Len(string)
    IN /\ BufferSize - (to_server_end - to_server_start) >= n
       /\ to_server' = [i \in 1 .. BufferSize |->
                           IF i \in to_server_end + 1 .. to_server_end + n
                           THEN string[i - to_server_end]
                           ELSE to_server[i]]
       /\ to_server_end' = to_server_end + n
       /\ UNCHANGED to_server_start
       /\ sent' = sent \o string

sendn_to_server(string) ==
    LET n == Len(string)
    IN /\ BufferSize - to_server_end >= n
       /\ to_server' = [i \in 1 .. BufferSize |->
                           IF i \in to_server_end + 1 .. to_server_end + n
                           THEN string[i - to_server_end]
                           ELSE to_server[i]]
       /\ to_server_end' = to_server_end + n
       /\ UNCHANGED to_server_start
       /\ sent' = sent \o string

Command(n) == [i \in 1 .. n |-> << "command", MaxBytes - bytes + i >>]

\* run_otp_task's child queues the preferences; manage_check_current_task a
\* request to stop.
Queue(n) ==
    /\ phase \in {"queue", "serve"} /\ ~cache_mode
    /\ n <= bytes
    /\ sendn_to_server(Command(n))
    /\ bytes' = bytes - n
    /\ UNCHANGED << cache_mode, phase, init_state, init_offset, socket,
                    received, peer, up, answer, tries >>

\* No room: the process gives up.
QueueFull(n) ==
    /\ phase \in {"queue", "serve"} /\ ~cache_mode
    /\ n <= bytes
    /\ BufferSize - to_server_end < n
    /\ phase' = "over"
    /\ UNCHANGED << cache_mode, init_state, init_offset, buffer, wire, peer,
                    up, answer, tries, bytes >>

\* The child returns to serve_gmp; the parent has gone on with the client.
Serve ==
    /\ phase = "queue"
    /\ phase' = "serve"
    /\ UNCHANGED << cache_mode, init_state, init_offset, buffer, wire, peer,
                    up, answer, tries, bytes >>

-----------------------------------------------------------------------------
(***************************************************************************)
(* The loop of serve_gmp.                                                  *)
(***************************************************************************)
Write ==
    /\ phase = "serve"
    /\ openvas_scanner_write
    /\ UNCHANGED << cache_mode, phase, sent, received, peer, up, answer,
                    tries, bytes >>

\* process_otp_scanner_input in the states of the initialisation.
Became(state) ==
    /\ init_state' = state
    /\ replies' = Tail(replies)
    /\ UNCHANGED << cache_mode, buffer, socket, received, answered,
                    init_offset, up, answer, tries, bytes >>

ReadVersion ==
    /\ phase = "serve" /\ init_state = "SENT_VERSION"
    /\ replies # << >> /\ Head(replies) = "version"
    /\ Became("DONE")
    /\ UNCHANGED sent /\ UNCHANGED phase

ReadFeedVersion ==
    /\ phase = "serve" /\ init_state = "DONE"
    /\ replies # << >> /\ Head(replies) = "nvt_info"
    /\ Became("GOT_FEED_VERSION")
    /\ sent' = sent \o CompleteList
    /\ UNCHANGED phase

ReadPlugins ==
    /\ phase = "serve" /\ init_state = "SENT_COMPLETE_LIST"
    /\ replies # << >> /\ Head(replies) = "plugin_list"
    /\ Became("GOT_PLUGINS")
    /\ sent' = sent \o Ack
    /\ UNCHANGED phase

ReadPreferences ==
    /\ phase = "serve" /\ init_state = "DONE_CACHE_MODE"
    /\ replies # << >> /\ Head(replies) = "preferences"
    /\ Became("DONE")
    /\ phase' = "over"
    /\ UNCHANGED sent

\* For the NVT cache, the process ends when the scanner is loading, or when
\* the cache has the version already.
CacheEnds ==
    /\ phase = "serve" /\ cache_mode
    /\ replies # << >>
    /\ \/ init_state = "SENT_VERSION" /\ Head(replies) = "loading"
       \/ init_state = "DONE" /\ Head(replies) = "nvt_info"
    /\ phase' = "over"
    /\ UNCHANGED << cache_mode, init_state, init_offset, buffer, wire, peer,
                    up, answer, tries, bytes >>

\* BYE: acknowledge_bye, one write, and the process ends.
ReadBye ==
    /\ phase = "serve" /\ init_state = "DONE"
    /\ replies # << >> /\ Head(replies) = "bye"
    /\ replies' = Tail(replies)
    /\ phase' = "over"
    /\ LET pending == SubSeq(to_server, to_server_start + 1, to_server_end) \o Ack
       IN IF to_server_end = BufferSize
          THEN UNCHANGED << sent, socket >>
          ELSE /\ sent' = sent \o Ack
               /\ socket' = socket \o SubSeq(pending, 1, Least(Free, Len(pending)))
    /\ UNCHANGED << cache_mode, init_state, init_offset, buffer, received,
                    answered, up, answer, tries, bytes >>

EndOfFile ==
    /\ "eof" \in Faults
    /\ phase \in {"loading", "queue", "serve"}
    /\ phase' = "over"
    /\ UNCHANGED << cache_mode, init_state, init_offset, buffer, wire, peer,
                    up, answer, tries, bytes >>

-----------------------------------------------------------------------------
(***************************************************************************)
(* The scanner reads its socket, and answers each string of the            *)
(* initialisation when it has read it.                                     *)
(***************************************************************************)
Open == phase \in {"loading", "queue", "serve"}

ScannerReads ==
    /\ \E n \in 1 .. Len(socket) :
           /\ received' = received \o SubSeq(socket, 1, n)
           /\ socket' = SubSeq(socket, n + 1, Len(socket))
    /\ UNCHANGED << cache_mode, phase, init_state, init_offset, buffer,
                    sent, peer, up, answer, tries, bytes >>

Answers(string, reply) ==
    /\ Open
    /\ \E i \in 1 .. Len(received) : received[i] = string[Len(string)]
    /\ replies' = Append(replies, reply)
    /\ answered' = answered + 1
    /\ UNCHANGED << cache_mode, phase, init_state, init_offset, buffer,
                    wire, up, answer, tries, bytes >>

AnswerVersion == answered = 0 /\ Answers(Version, "version")
AnswerLoading == /\ "loading" \in Faults
                 /\ answered = 0 /\ Answers(Version, "loading")
AnswerNvtInfo == answered = 1 /\ Answers(NvtInfo, "nvt_info")
AnswerList == answered = 2 /\ Answers(CompleteList, "plugin_list")
AnswerAck == answered = 3 /\ Answers(Ack, "preferences")
\* The scan is over.
ScannerBye ==
    /\ phase = "serve" /\ ~cache_mode
    /\ answered = 1
    /\ replies' = Append(replies, "bye")
    /\ answered' = 2
    /\ UNCHANGED << cache_mode, phase, init_state, init_offset, buffer,
                    wire, up, answer, tries, bytes >>

-----------------------------------------------------------------------------
ProcessStep == Write \/ ReadVersion \/ ReadFeedVersion \/ ReadPlugins

Next ==
    \/ ConnectFails \/ InitFails \/ Connect \/ VerifyScanner
    \/ Loading \/ NotLoading \/ AlreadyActive
    \/ \E n \in Lens : Queue(n)
    \/ \E n \in Lens : QueueFull(n)
    \/ Serve
    \/ ProcessStep \/ ReadPreferences \/ CacheEnds \/ ReadBye \/ EndOfFile
    \/ ScannerReads
    \/ AnswerVersion \/ AnswerLoading \/ AnswerNvtInfo \/ AnswerList \/ AnswerAck
    \/ ScannerBye

Spec == Init /\ [][Next]_vars

\* The loop of serve_gmp goes round, and the scanner reads and answers.
FairSpec ==
    /\ Spec
    /\ WF_vars(ProcessStep)
    /\ WF_vars(ScannerReads)

-----------------------------------------------------------------------------
(***************************************************************************)
(* The scanner reads exactly what is meant for it: the partial writes of   *)
(* the buffer go on where they stopped, nothing that is queued before the  *)
(* initialisation overtakes it, and a new connection has nothing of an old *)
(* one.  This is about sockets that take the strings of the initialisation *)
(* whole (Capacity >= 2 * StringLen): a string that is written in parts    *)
(* does not go on where it stopped, as openvas_scanner_write keeps the     *)
(* length of the last part only.                                           *)
(***************************************************************************)
Reads == INSTANCE ByteStream WITH sent <- sent, got <- received
InOrder == Reads!Stream

(***************************************************************************)
(* What is queued is read, if the connection lasts: write_to_server_buffer *)
(* comes back for what the socket did not take, in every state of the      *)
(* initialisation in which something is meant for the scanner.             *)
(***************************************************************************)
Delivered ==
    \A n \in 1 .. 3 * StringLen + MaxBytes :
        (phase = "serve" /\ (cache_mode \/ answered > 0) /\ Len(sent) = n)
            ~> (Len(received) >= n \/ phase = "over")

(***************************************************************************)
(* run_otp_task returns -5 for a scanner that is "down or still loading".  *)
(***************************************************************************)
DownWhenDown == answer = "down" => ~up
=============================================================================
