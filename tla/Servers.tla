------------------------------- MODULE Servers ------------------------------
(***************************************************************************)
(* The servers that serve one connection at a time: tcp/tcp-sink-server.c, *)
(* trivial-tcp-echo-server.c, reuseaddr.c, inetd/accept-rw.c, and the two  *)
(* that read the terminal as well, select/select.c and busy-wait.c.        *)
(***************************************************************************)
EXTENDS Sockets

CONSTANT Lines   \* bound: how many lines are typed

ASSUME ServersAssumption == Lines \in Nat

VARIABLES cur,       \* the peer that is served; 0 when none is
          out,       \* history: what was printed, <<peer or 0, piece>>
          lines,     \* lines typed and not read; 0 is the terminal
          typed,     \* history: lines typed
          eof,       \* end of file on the terminal
          ready      \* select.c: the set rdfds

serverVars == <<cur, out, lines, typed, eof, ready>>
terminal == <<lines, typed, eof>>

ServerPrograms == {"sink", "echo", "reuse", "inetd", "select", "busywait"}

ServersInit == /\ cur = 0 /\ out = <<>>
               /\ lines = 0 /\ typed = 0 /\ eof = FALSE /\ ready = {}

\* Who sets SO_REUSEADDR; inetd binds for its services.
reuse == program \in {"sink", "select", "busywait", "inetd"} \/ opt = "1"

\* Where the loop starts.
Top == CASE program = "select" -> "select"
         [] program = "busywait" -> "stdin"
         [] OTHER -> "accept"

\* socket(), setsockopt(), bind() and listen().  An earlier server may have died
\* with connections open.
Listen == /\ \E timeWait \in BOOLEAN :
                Moves(0, "start", IF timeWait /\ ~reuse THEN "failed" ELSE Top)
          /\ UNCHANGED <<socketVars, serverVars>>

Listens == pc[0] \notin {"start", "ended", "failed", "killed"}
-----------------------------------------------------------------------------
(* The terminal.  busy-wait.c has made stdout non-blocking, so that write() *)
(* may fail, and with it, if it is the same terminal, stdin.               *)

TypesLine == /\ lines' = lines + 1 /\ typed' = typed + 1 /\ typed < Lines /\ ~eof
             /\ UNCHANGED <<pc, cur, out, eof, ready, socketVars>>

TypesEof == /\ ~eof /\ eof' = TRUE
            /\ UNCHANGED <<pc, cur, out, lines, typed, ready, socketVars>>

Written(v) == IF Is("busywait") THEN {out, Append(out, v)} ELSE {Append(out, v)}

ReadStdin == \/ /\ lines > 0 /\ Goto(0, "sock")
                /\ lines' = lines - 1
                /\ out' \in Written(<<0, typed - lines + 1>>)
                /\ UNCHANGED <<cur, typed, eof, ready, socketVars>>
             \/ /\ lines = 0 /\ eof /\ Goto(0, "ended")
                /\ UNCHANGED <<serverVars, socketVars>>
-----------------------------------------------------------------------------
(* One connection, from accept() to close().                               *)

Accept(l) == /\ Moves(0, l, "read")
             /\ \E c \in Peers : Accepts(c) /\ cur' = c
             /\ UNCHANGED <<out, terminal, ready>>

ReadData == /\ SockReads(cur)
            /\ Moves(0, "read", IF program \in {"echo", "inetd"} THEN "echo" ELSE "read")
            /\ out' \in IF Is("inetd") THEN {out} ELSE Written(<<cur, got[cur] + 1>>)
            /\ UNCHANGED <<cur, terminal, ready>>

\* sink, echo and reuseaddr pass the -1 on to write(), which refuses it, and read
\* again; the others stop.
ReadError == /\ SockError(cur)
             /\ Moves(0, "read", CASE program \in {"sink", "echo", "reuse"} -> "read"
                                   [] program = "inetd" -> "ended"
                                   [] OTHER -> "failed")
             /\ UNCHANGED serverVars

\* As ReadEof, without close(newsock).
ReadEofNoClose == /\ SockEof(cur)
                  /\ Moves(0, "read", IF Is("inetd") THEN "ended" ELSE Top)
                  /\ UNCHANGED serverVars

\* As ReadEof, as soon as the peer has closed, read or not.
ReadEofEarly == /\ conn[cur] \in {"fin", "closed", "poked", "broken"}
                /\ Moves(0, "read", IF Is("inetd") THEN "ended" ELSE Top)
                /\ cur' = 0
                /\ UNCHANGED <<out, terminal, ready, socketVars>>

\* close(newsock), or exit.
ReadEof == /\ SockEof(cur)
           /\ Moves(0, "read", IF Is("inetd") THEN "ended" ELSE Top)
           /\ cur' = 0
           /\ UNCHANGED <<out, terminal, ready>>

\* write(newsock, buf, n): only accept-rw.c looks at the result.
Echo == /\ At(0, "echo")
        /\ \/ SockWrites(cur, got[cur]) /\ Goto(0, "read")
           \/ SockWriteError(cur) /\ Goto(0, IF Is("inetd") THEN "failed" ELSE "read")
           \/ SigPipe(cur)
        /\ UNCHANGED serverVars

Serve == cur # 0 /\ (ReadData \/ ReadError \/ ReadEof \/ Echo)
-----------------------------------------------------------------------------
Server == Listen \/ Accept("accept") \/ Serve

\* The two descriptors are looked at in this order, with what select() said.
Select == \/ Listen
          \/ /\ Moves(0, "select", "stdin")
             /\ ready' = {d \in {"stdin", "sock"} : IF d = "stdin" THEN lines > 0 \/ eof
                                                                  ELSE backlog # <<>>}
             /\ ready' # {}
             /\ UNCHANGED <<cur, out, terminal, socketVars>>
          \/ "stdin" \in ready /\ At(0, "stdin") /\ ReadStdin
          \/ "stdin" \notin ready /\ Moves(0, "stdin", "sock") /\ UNCHANGED <<serverVars, socketVars>>
          \/ "sock" \in ready /\ Accept("sock")
          \/ "sock" \notin ready /\ Moves(0, "sock", "select") /\ UNCHANGED <<serverVars, socketVars>>
          \/ Serve

\* Option "tty": stdin and stdout are one terminal, and read() does not block.
BusyWait == \/ Listen
            \/ At(0, "stdin") /\ ReadStdin
            \/ /\ opt = "tty" /\ lines = 0 /\ ~eof
               /\ Moves(0, "stdin", "sock") /\ UNCHANGED <<serverVars, socketVars>>
            \/ Accept("sock")
            \/ backlog = <<>> /\ Moves(0, "sock", "stdin") /\ UNCHANGED <<serverVars, socketVars>>
            \/ Serve
-----------------------------------------------------------------------------
ServerStep == \/ program \in {"sink", "echo", "reuse", "inetd"} /\ Server
              \/ Is("select") /\ Select
              \/ Is("busywait") /\ BusyWait

ServerOutside == /\ program \in ServerPrograms /\ Listens
                 /\ \/ \E c \in Peers : /\ Connects(c) \/ PeerStep(c)
                                        /\ UNCHANGED <<pc, serverVars>>
                    \/ program \in {"select", "busywait"} /\ (TypesLine \/ TypesEof)
=============================================================================
