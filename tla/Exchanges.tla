------------------------------ MODULE Exchanges -----------------------------
(***************************************************************************)
(* Pairs of programs of this repository that talk to each other:           *)
(* select/write-select.c and connect-only.c, udp/udp-server.c and          *)
(* udp-client.c, and the two processes of unix-socket/main.c.  Actor 0 is  *)
(* the server, 1 the client.                                               *)
(***************************************************************************)
EXTENDS Sockets

VARIABLES heard,    \* history: what each of the two has printed
          grams,    \* history: sizes of the datagrams the client has sent
          net,      \* datagrams on their way: their numbers; 0 is a stranger's, empty
          stranger  \* history: there was one

exchangeVars == <<heard, grams, net, stranger>>

ExchangePrograms == {"writeselect", "udp", "unix"}

ExchangesInit == /\ heard = [a \in {0, 1} |-> <<>>]
                 /\ grams = <<>> /\ net = {} /\ stranger = FALSE

Prints(a, v) == heard' = [heard EXCEPT ![a] = Append(@, v)] /\ UNCHANGED <<grams, net, stranger>>
Silent == UNCHANGED exchangeVars
-----------------------------------------------------------------------------
(* write-select.c writes numbered pieces to whoever connects; K bounds     *)
(* their number.  connect-only.c reads them only with the option           *)
(* "interval".                                                             *)

total == Len(back[1])

WriteSelect == /\ \/ Moves(0, "start", "accept") /\ UNCHANGED socketVars
                  \/ Accepts(1) /\ Moves(0, "accept", "select")
                  \/ Writable(1) /\ total < K /\ Moves(0, "select", "write") /\ UNCHANGED socketVars
                  \/ /\ At(0, "write")
                     /\ \/ SockWrites(1, total + 1) /\ Goto(0, "select")
                        \/ SockWriteError(1) /\ Goto(0, "failed")
                        \/ SigPipe(1)
               /\ Silent

ConnectOnly ==
    \/ /\ At(1, "start")
       /\ \/ At(0, "accept") /\ Connects(1) /\ Goto(1, IF opt = "interval" THEN "read" ELSE "pause")
          \/ ~At(0, "accept") /\ Goto(1, "failed") /\ UNCHANGED socketVars
       /\ Silent
    \/ /\ At(1, "read") /\ Takes(1) /\ UNCHANGED pc
       /\ Prints(1, back[1][total - unread[1] + 1])
    \/ /\ unread[1] = 0 /\ Dead(0)
       /\ Moves(1, "read", IF backlog = <<>> THEN "ended" ELSE "failed")
       /\ UNCHANGED socketVars /\ Silent

\* Ctrl-C in one of the two terminals.
Interrupted(a) ==
    /\ ~Dead(a) /\ pc[a] # "start" /\ Goto(a, "killed")
    /\ IF a = 1 /\ conn[1] = "open" THEN Becomes(1, IF unread[1] = 0 THEN "closed" ELSE "reset")
                                    ELSE UNCHANGED conn
    /\ UNCHANGED <<backlog, sent, rx, got, back, unread>> /\ Silent
-----------------------------------------------------------------------------
(* UDP: the client's buffer is larger than the server's, which cuts off    *)
(* what does not fit.                                                      *)

UdpClient == /\ \/ Moves(1, "start", "read") /\ Silent
                \/ /\ At(1, "read") /\ Len(grams) < K /\ Len(grams) < given
                   /\ \/ /\ \E size \in {"short", "long"} : grams' = Append(grams, size)
                         /\ net' = net \cup {Len(grams) + 1}
                         /\ UNCHANGED <<pc, heard, stranger>>
                      \/ Goto(1, "failed") /\ Silent
                \/ Len(grams) = K /\ K < given /\ Moves(1, "read", "ended") /\ Silent
             /\ UNCHANGED socketVars

\* A datagram may come twice, as long as K allows.
UdpServer == /\ \/ Moves(0, "start", "recv") /\ Silent
                \/ /\ At(0, "recv") /\ 0 \in net
                   /\ Goto(0, "ended") /\ Silent
                \/ /\ At(0, "recv")
                   /\ \E k \in net \ {0} :
                         /\ heard' = [heard EXCEPT ![0] =
                                 Append(@, <<k, IF grams[k] = "long" THEN "head" ELSE "short">>)]
                         /\ \/ net' = net \ {k}
                            \/ net' = net /\ Len(heard[0]) < K
                   /\ UNCHANGED <<pc, grams, stranger>>
             /\ UNCHANGED socketVars

Loses(k) == net' = net \ {k} /\ UNCHANGED <<pc, heard, grams, stranger, socketVars>>

Stranger == /\ ~stranger /\ stranger' = TRUE /\ net' = net \cup {0}
            /\ UNCHANGED <<pc, heard, grams, socketVars>>
-----------------------------------------------------------------------------
(* unix-socket/main.c.  Nothing but socket() is checked: a client that is  *)
(* too early, or a process without the other, prints what is in its buffer. *)

UnixServer ==
    \/ /\ At(0, "start")
       /\ \E born \in BOOLEAN :
             pc' = [pc EXCEPT ![0] = "socket", ![1] = IF born THEN "socket" ELSE "unborn"]
       /\ UNCHANGED socketVars /\ Silent
    \/ \E l \in {"accept", "failed"} : Moves(0, "socket", l) /\ UNCHANGED socketVars /\ Silent
    \/ Accepts(1) /\ Moves(0, "accept", "read") /\ Silent
    \/ SockReads(1) /\ Moves(0, "read", "write") /\ Prints(0, "hello!")
    \/ At(0, "write") /\ SockWrites(1, "get out!") /\ Goto(0, "ended") /\ Silent

UnixClient ==
    \/ \E l \in {"connect", "failed"} : Moves(1, "socket", l) /\ UNCHANGED socketVars /\ Silent
    \/ /\ Moves(1, "connect", "write") /\ Silent
       /\ IF At(0, "accept") THEN Connects(1) ELSE UNCHANGED socketVars
    \/ /\ Moves(1, "write", "read") /\ Silent
       /\ IF conn[1] = "open" THEN Sends(1) ELSE UNCHANGED socketVars
    \/ Takes(1) /\ Moves(1, "read", "ended") /\ Prints(1, "get out!")
    \/ conn[1] = "new" /\ Moves(1, "read", "ended") /\ UNCHANGED socketVars /\ Prints(1, "garbage")
-----------------------------------------------------------------------------
ExchangeStep(a) == \/ Is("writeselect") /\ a = 0 /\ WriteSelect
                   \/ Is("writeselect") /\ a = 1 /\ ConnectOnly
                   \/ Is("udp") /\ a = 0 /\ UdpServer
                   \/ Is("udp") /\ a = 1 /\ UdpClient
                   \/ Is("unix") /\ a = 0 /\ UnixServer
                   \/ Is("unix") /\ a = 1 /\ UnixClient

ExchangeOutside == \/ Is("writeselect") /\ \E a \in {0, 1} : Interrupted(a)
                   \/ Is("udp") /\ ((\E k \in net : Loses(k)) \/ Stranger)
=============================================================================
