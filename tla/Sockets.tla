------------------------------- MODULE Sockets ------------------------------
(***************************************************************************)
(* TCP connections as the programs see them (external: the kernel and the  *)
(* peers, after Linux).  Peer c sends numbered pieces and may close, or    *)
(* reset, at any moment.                                                   *)
(***************************************************************************)
EXTENDS Streams

CONSTANT Cap   \* bound: how many pieces the kernel keeps for a peer that does not read

ASSUME SocketsAssumption == Cap \in Nat \ {0}

VARIABLES conn,     \* what became of the connection to the peer
          backlog,  \* connections waiting for accept()
          sent,     \* history: pieces the peer has sent
          rx,       \* pieces received and not read by the program
          got,      \* history: pieces read by the program
          back,     \* history: what the program has written to the peer
          unread    \* how much of that the peer has not read

socketVars == <<conn, backlog, sent, rx, got, back, unread>>

Peers == 1 .. 2

\* "fin": the peer sends no more; "closed": nor does it read; "reset": an error is
\* to be reported; "broken": it has been, or it was EPIPE, or the program itself has
\* reset the connection; "poked": data is on its way to a peer that is gone.
States == {"new", "open", "fin", "closed", "poked", "reset", "broken"}

SocketsInit == /\ conn = [c \in Peers |-> "new"] /\ backlog = <<>>
               /\ sent = [c \in Peers |-> 0] /\ rx = sent /\ got = sent /\ unread = sent
               /\ back = [c \in Peers |-> <<>>]

Becomes(c, s) == conn' = [conn EXCEPT ![c] = s]
-----------------------------------------------------------------------------
(* What the peers do.                                                      *)

Connects(c) == /\ conn[c] = "new" /\ Becomes(c, "open")
               /\ backlog' = Append(backlog, c)
               /\ UNCHANGED <<sent, rx, got, back, unread>>

Sends(c) == /\ conn[c] = "open" /\ sent[c] < K
            /\ sent' = [sent EXCEPT ![c] = @ + 1]
            /\ rx' = [rx EXCEPT ![c] = @ + 1]
            /\ UNCHANGED <<conn, backlog, got, back, unread>>

Closes(c) == /\ \/ conn[c] = "open" /\ Becomes(c, "fin")
                \/ conn[c] \in {"open", "fin"} /\ unread[c] = 0 /\ Becomes(c, "closed")
             /\ UNCHANGED <<backlog, sent, rx, got, back, unread>>

\* What had not been read yet may be lost with the connection.
Resets(c) == /\ conn[c] \in {"open", "fin"} /\ Becomes(c, "reset")
             /\ rx' \in {rx, [rx EXCEPT ![c] = 0]}
             /\ UNCHANGED <<backlog, sent, got, back, unread>>

Takes(c) == /\ conn[c] \in {"open", "fin"} /\ unread[c] > 0
            /\ unread' = [unread EXCEPT ![c] = @ - 1]
            /\ UNCHANGED <<conn, backlog, sent, rx, got, back>>

\* The answer to data sent to a peer that is gone.
RstArrives(c) == /\ conn[c] = "poked" /\ Becomes(c, "broken")
                 /\ UNCHANGED <<backlog, sent, rx, got, back, unread>>

PeerStep(c) == Sends(c) \/ Closes(c) \/ Resets(c) \/ Takes(c)
-----------------------------------------------------------------------------
(* What a program gets from accept(), read(), write() and close().         *)

Accepts(c) == /\ backlog # <<>> /\ c = Head(backlog)
              /\ backlog' = Tail(backlog)
              /\ UNCHANGED <<conn, sent, rx, got, back, unread>>

SockReads(c) == /\ rx[c] > 0
                /\ rx' = [rx EXCEPT ![c] = @ - 1]
                /\ got' = [got EXCEPT ![c] = @ + 1]
                /\ UNCHANGED <<conn, backlog, sent, back, unread>>

SockEof(c) == rx[c] = 0 /\ conn[c] \in {"fin", "closed", "poked", "broken"} /\ UNCHANGED socketVars

\* -1, once: the next read() says end of file.
SockError(c) == /\ rx[c] = 0 /\ conn[c] = "reset" /\ Becomes(c, "broken")
                /\ UNCHANGED <<backlog, sent, rx, got, back, unread>>

Writable(c) == unread[c] < Cap \/ conn[c] \notin {"open", "fin"}

\* The kernel takes the piece, which is lost if the peer is gone.
SockWrites(c, v) == \/ /\ conn[c] \in {"open", "fin"} /\ unread[c] < Cap
                       /\ back' = [back EXCEPT ![c] = Append(@, v)]
                       /\ unread' = [unread EXCEPT ![c] = @ + 1]
                       /\ UNCHANGED <<conn, backlog, sent, rx, got>>
                    \/ /\ conn[c] \in {"closed", "poked"} /\ Becomes(c, "poked")
                       /\ UNCHANGED <<backlog, sent, rx, got, back, unread>>

SockWriteError(c) == /\ conn[c] = "reset" /\ Becomes(c, "broken")
                     /\ UNCHANGED <<backlog, sent, rx, got, back, unread>>

\* close() when there is data from the peer that nobody has read: the peer is told
\* to forget the connection, and with it, maybe, what it has not read yet.
Aborts(c) == /\ Becomes(c, "broken")
             /\ \E lost \in 0 .. unread[c] :
                   /\ back' = [back EXCEPT ![c] = SubSeq(@, 1, Len(@) - lost)]
                   /\ unread' = [unread EXCEPT ![c] = @ - lost]
             /\ UNCHANGED <<backlog, sent, rx, got>>

\* EPIPE comes with SIGPIPE, which no program of this repository handles.
SigPipe(c) == /\ conn[c] = "broken" /\ Goto(0, "killed")
              /\ UNCHANGED socketVars
=============================================================================
