----------------------------- MODULE ByteStream -----------------------------
(***************************************************************************)
(* What gvmd relies on when it talks to its scanner: the peer reads what   *)
(* was meant for it, every byte, once and in order, however the writes are *)
(* cut.  ScannerConnection implements it.                                  *)
(***************************************************************************)
EXTENDS Naturals, Sequences

VARIABLES
    sent,    \* the bytes meant for the peer
    got      \* the bytes that the peer has read

Prefix(s, t) == Len(s) <= Len(t) /\ s = SubSeq(t, 1, Len(s))

StreamInit == sent = << >> /\ got = << >>

\* A new connection, on which nothing has been sent.
Open == sent' = << >> /\ got' = << >>

Put == Prefix(sent, sent') /\ got' = got

\* The peer reads some of the bytes that it has not read yet.
Deliver == Prefix(got, got') /\ Prefix(got', sent) /\ sent' = sent

StreamNext == Open \/ Put \/ Deliver

Stream == StreamInit /\ [][StreamNext]_<< sent, got >>
=============================================================================
