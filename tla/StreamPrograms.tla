--------------------------- MODULE StreamPrograms ---------------------------
(***************************************************************************)
(* The programs with pipes, sockets and files, one of which runs in a      *)
(* behaviour, and what becomes of their data.                              *)
(***************************************************************************)
EXTENDS Pipes, Servers, Copiers, Exchanges

vars == <<commandLine, given, pc, pipeVars, socketVars, serverVars, copierVars, exchangeVars>>

CommandLines ==
    (PipePrograms \cup ServerPrograms \cup CopierPrograms \cup ExchangePrograms)
        \X {""}
    \cup {<<"deadlockinread", "close">>, <<"reuse", "1">>, <<"busywait", "tty">>,
          <<"cat", "0">>, <<"cat", "-1">>, <<"linger", "-L 0">>, <<"writeselect", "interval">>}

\* Whose first step it is: the two programs of an exchange are started apart.
Init == /\ \E c \in CommandLines : program = c[1] /\ opt = c[2]
        /\ pc = [a \in Actors |->
                   IF a = 0 \/ (a = 1 /\ program \in {"writeselect", "udp"})
                   THEN "start" ELSE "unborn"]
        /\ given = 0
        /\ PipesInit /\ SocketsInit /\ ServersInit /\ CopiersInit /\ ExchangesInit

\* What the module of a program leaves to the others.
InPipes == UNCHANGED <<socketVars, serverVars, copierVars, exchangeVars>>
InServers == UNCHANGED <<pipeVars, copierVars, exchangeVars>>
InCopiers == UNCHANGED <<pipeVars, serverVars, exchangeVars>>
InExchanges == UNCHANGED <<pipeVars, serverVars, copierVars>>

Step(a) == /\ \/ PipeStep(a) /\ InPipes
              \/ a = 0 /\ ServerStep /\ InServers
              \/ a = 0 /\ CopierStep /\ InCopiers
              \/ ExchangeStep(a) /\ InExchanges
           /\ UNCHANGED <<commandLine, given>>

Arrival == /\ \E c \in Peers : RstArrives(c)
           /\ UNCHANGED <<commandLine, given, pc, pipeVars, serverVars, copierVars, exchangeVars>>

Outside == /\ \/ PipeOutside /\ InPipes
              \/ ServerOutside /\ InServers
              \/ CopierOutside /\ InCopiers
              \/ ExchangeOutside /\ InExchanges
           /\ UNCHANGED <<commandLine, given>>

\* Somebody types, or ends the input.
Input == /\ program \in {"simplecat", "connect", "linger", "udp"} /\ given <= K
         /\ given' = given + 1
         /\ UNCHANGED <<commandLine, pc, pipeVars, socketVars, serverVars, copierVars, exchangeVars>>

Next == (\E a \in Actors : Step(a)) \/ Arrival \/ Outside \/ Input

\* The programs run and packets arrive; nobody has to connect, to type, to end
\* the input, to send, to read, to close or to quit.
Fairness == (\A a \in Actors : WF_vars(Step(a))) /\ WF_vars(Arrival)

Spec == Init /\ [][Next]_vars /\ Fairness
-----------------------------------------------------------------------------
\* Type correctness.  A server is at its accept() only when it has closed the
\* connection it served before, and the kernel holds no more than it can.
TypeOK == /\ <<program, opt>> \in CommandLines
          /\ reads \subseteq Actors /\ writes \subseteq Actors /\ inPipe = made - taken
          /\ \A c \in Peers : /\ conn[c] \in States /\ unread[c] \in 0 .. Cap
                              /\ got[c] + rx[c] <= sent[c] /\ sent[c] <= K
          /\ cur \in {0} \cup Peers /\ lines <= typed /\ typed <= Lines
          /\ program \in ServerPrograms /\ At(0, Top) => cur = 0
          /\ ret \in {0, 1} /\ left \in 0 .. K /\ given \in 0 .. (K + 1)
          /\ Len(grams) <= K /\ net \subseteq 0 .. Len(grams)

\* The first n pieces of a source; which pieces of a source are in s; what comes
\* first when sources are printed one after the other.
Whole(c, n) == [k \in 1 .. n |-> <<c, k>>]
Pieces(s, c) == {s[i][2] : i \in {j \in DOMAIN s : s[j][1] = c}}
Before(v, w) == v[1] < w[1] \/ (v[1] = w[1] /\ v[2] < w[2])

\* What comes out is what went in.  The servers print nothing that was not sent or
\* typed, the pieces of a connection in order and without anything in between, and
\* all of them before they turn to the next one, unless the connection was reset
\* (busy-wait.c, whose stdout does not block, may drop some); what was echoed came
\* from the peer; and only a server that echoes can be killed, by a peer that is
\* gone.  cat.c exits 0 only if every file was printed whole, except with a buffer
\* of 0 bytes, and 1 only if one was not.  connect.c and linger.c deliver all of
\* their input unless the connection is reset, by the peer, by an answer that
\* nobody reads or by linger.c's option; and linger.c ends only if its input does,
\* without an error.  connect-only.c
\* prints a prefix of what write-select.c wrote, the UDP server nothing that was
\* not sent, and the client of unix-socket is answered only by a server that has
\* heard it.
OutputIsInput ==
    /\ program \in ServerPrograms =>
          /\ \A i, j \in DOMAIN out : i < j /\ out[i][1] = out[j][1] =>
                /\ out[i][2] < out[j][2]
                /\ out[i][1] # 0 => \A k \in i .. j : out[k][1] = out[i][1]
          /\ Pieces(out, 0) \subseteq 1 .. typed
          /\ \A c \in Peers :
                /\ Pieces(out, c) \subseteq 1 .. got[c]
                /\ program \in {"sink", "echo", "reuse", "select"} => Pieces(out, c) = 1 .. got[c]
                /\ IsPrefixOf(back[c], [k \in 1 .. got[c] |-> k])
                /\ got[c] > 0 /\ cur # c /\ conn[c] # "broken" => got[c] = sent[c]
          /\ At(0, "killed") => /\ program \in {"echo", "inetd"}
                                /\ cur # 0 /\ conn[cur] = "broken"
    /\ Is("simplecat") => /\ IsPrefixOf(copied, Whole(1, K))
                          /\ At(0, "ended") => copied = Whole(1, K)
    /\ Is("cat") /\ At(0, "ended") =>
          LET whole == \A f \in DOMAIN files : Pieces(copied, f) = 1 .. K
              bad == \E f \in DOMAIN files : files[f] # "file" \/ badInput
          IN /\ opt = "" => (ret = 0) = (whole /\ ~bad)
             /\ opt = "0" => copied = <<>>
             /\ \A i, j \in DOMAIN copied : i < j => Before(copied[i], copied[j])
    /\ program \in {"connect", "linger"} =>
          /\ IsPrefixOf(back[1], [k \in 1 .. K |-> k])
          /\ At(0, "ended") /\ conn[1] \in {"open", "fin"} => Len(back[1]) = K
          /\ Is("linger") /\ At(0, "ended") => ~badInput
    /\ Is("writeselect") => heard[1] = [k \in 1 .. Len(heard[1]) |-> k] /\ Len(heard[1]) <= total
    /\ Is("udp") => /\ \A i \in DOMAIN heard[0] :
                          /\ heard[0][i][1] \in DOMAIN grams
                          /\ (heard[0][i][2] = "head") = (grams[heard[0][i][1]] = "long")
                    /\ At(0, "ended") => stranger
    /\ Is("unix") /\ heard[1] = <<"get out!">> => heard[0] = <<"hello!">>

\* Where each program gets to when the others do no more.
Settled ==
    CASE program = "deadlockinread" -> At(0, IF opt = "close" THEN "ended" ELSE "read")
      [] program = "selfdeadlock" -> At(0, "read")
      [] program = "brokenpipe" -> At(0, "killed")
      [] program = "countdown" -> At(0, "ended") /\ \A c \in {1, 2} : pc[c] \in {"ended", "unborn"}
      [] program = "pipeandfork" ->
             At(0, "failed") \/ (pc[0] \in {"less", "ended"} /\ Dead(1) /\ writes = {})
      [] program = "fifo" -> \/ At(0, "ended") /\ (taken = 2 \/ taken = made)
                             \/ At(0, "opening") /\ At(1, "unborn")
                             \/ writes # {} /\ inPipe = 0
      [] program \in ServerPrograms ->
             \/ Dead(0)
             \/ cur = 0 /\ backlog = <<>> /\ (program \in {"select", "busywait"} => lines = 0)
             \/ cur # 0 /\ At(0, "read") /\ conn[cur] = "open" /\ rx[cur] = 0
             \/ At(0, "echo") /\ ~Writable(cur)
             \/ Is("busywait") /\ opt = "" /\ At(0, "stdin") /\ lines = 0 /\ ~eof
      [] program = "cat" -> Dead(0)
      [] program = "simplecat" -> Dead(0) \/ given < Piece
      [] program \in {"connect", "linger"} ->
             \/ Dead(0)
             \/ At(0, "read") /\ given < Piece
             \/ At(0, "write") /\ ~Writable(1)
             \/ Is("linger") /\ badInput /\ left = 0 /\ given = K + 1
      [] program = "writeselect" ->
             \/ Dead(0)
             \/ At(0, "accept") /\ At(1, "failed")
             \/ opt = "" /\ ~Writable(1)
             \/ total = K /\ (At(1, "read") => Len(heard[1]) = K)
      [] program = "udp" -> /\ Dead(1) \/ (At(1, "read") /\ given <= Len(grams))
                            /\ Dead(0) \/ net = {}
      [] program = "unix" ->
             /\ Dead(1) \/ At(1, "unborn")
             /\ \/ heard = [a \in {0, 1} |-> <<IF a = 0 THEN "hello!" ELSE "get out!">>]
                \/ At(0, "failed")
                \/ At(0, "accept") /\ conn[1] = "new"
      [] OTHER -> TRUE

\* Every program comes to its end, or to the place where it waits for somebody
\* who need not come: a reader that holds the write end itself, a server whose
\* peer sends nothing or does not read, a terminal nobody types at, less that has
\* its end of file, a FIFO nobody has opened for writing, a client that called
\* connect() too early, and linger.c, which takes a failing read() for data for
\* ever.  open-sleep-read.c gets what is in the FIFO even if its writer has gone.
StreamsEnd == <>[]Settled
=============================================================================
