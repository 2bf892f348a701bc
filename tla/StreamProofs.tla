---------------------------- MODULE StreamProofs ----------------------------
(***************************************************************************)
(* Proofs about the programs that move data, for any number of pieces and  *)
(* of lines and any room in the kernel: what comes out is what went in.    *)
(***************************************************************************)
EXTENDS StreamPrograms, TLAPS

(***************************************************************************)
(* Pipes.                                                                  *)
(***************************************************************************)
PipeTypes == /\ reads \subseteq Actors /\ writes \subseteq Actors
             /\ made \in Nat /\ taken \in Nat /\ inPipe = made - taken

(***************************************************************************)
(* Connections, whatever program has them.  What was sent and not lost has *)
(* been read or is there to be read.                                       *)
(***************************************************************************)
Hello == "hello!"
GetOut == "get out!"
Words == Nat \cup {GetOut}
SocketTypes == /\ conn \in [Peers -> States] /\ unread \in [Peers -> 0 .. Cap]
               /\ sent \in [Peers -> 0 .. K] /\ rx \in [Peers -> Nat] /\ got \in [Peers -> Nat]
               /\ back \in [Peers -> Seq(Words)]
               /\ backlog \in Seq(Peers)

Arrived(c) == /\ (got[c] + rx[c]) <= sent[c]
              /\ conn[c] \notin {"reset", "broken"} => (got[c] + rx[c]) = sent[c]
              /\ conn[c] = "new" => sent[c] = 0 /\ back[c] = <<>>
              /\ unread[c] <= Len(back[c])
Arriving == \A c \in Peers : Arrived(c)

Network == SocketTypes /\ Arriving
-----------------------------------------------------------------------------
(* The servers.                                                            *)

ServerTypes == /\ cur \in {0} \cup Peers /\ out \in Seq(({0} \cup Peers) \X Nat)
               /\ lines \in Nat /\ typed \in 0 .. Lines /\ lines <= typed

\* Where the server is says whether it has a connection.
Serving == /\ pc[0] \in {"start", "accept", "select", "stdin", "sock"} => cur = 0
           /\ pc[0] \in {"read", "echo"} => cur # 0
           /\ At(0, "echo") => program \in {"echo", "inetd"}

\* A connection is in the backlog once, and until it is served.
Queued == /\ cur # 0 => conn[cur] # "new"
          /\ \A i \in DOMAIN backlog :
                /\ conn[backlog[i]] # "new" /\ got[backlog[i]] = 0 /\ backlog[i] # cur
                /\ \A j \in DOMAIN backlog : j # i => backlog[j] # backlog[i]

\* Nothing is printed that was not read, and the pieces of the peer that is served
\* come last.
Printed == \A i \in DOMAIN out :
    /\ out[i][1] = 0 => out[i][2] \in 1 .. (typed - lines)
    /\ \A c \in Peers : out[i][1] = c => out[i][2] \in 1 .. got[c]
    /\ out[i][1] = cur => \A j \in i .. Len(out) : out[j][1] = cur \/ cur = 0

InOrder == \A i, j \in DOMAIN out : i < j /\ out[i][1] = out[j][1] =>
    /\ out[i][2] < out[j][2]
    /\ out[i][1] # 0 => \A k \in i .. j : out[k][1] = out[i][1]

AllPrinted == program \in {"sink", "echo", "reuse", "select"} =>
    \A c \in Peers : \A k \in 1 .. got[c] : \E i \in DOMAIN out : out[i] = <<c, k>>

Echoed == \A c \in Peers :
    /\ Len(back[c]) <= got[c] /\ \A k \in DOMAIN back[c] : back[c][k] = k
    /\ conn[c] \in {"open", "fin"} /\ program \in {"echo", "inetd"} =>
          Len(back[c]) = got[c] - (IF At(0, "echo") /\ cur = c THEN 1 ELSE 0)

\* A connection is left when the peer sends no more and all is read.
Left == \A c \in Peers : got[c] > 0 /\ cur # c =>
    conn[c] # "open" /\ (conn[c] # "broken" => got[c] = sent[c])

Serves == Serving /\ Queued /\ Printed /\ InOrder /\ AllPrinted /\ Echoed /\ Left

\* A server dies by writing to a peer that has gone.
KilledByPeer == At(0, "killed") =>
    program \in {"echo", "inetd"} /\ cur # 0 /\ conn[cur] = "broken"
ServerInv == program \in ServerPrograms => Serves /\ KilledByPeer
-----------------------------------------------------------------------------
(* The programs that copy.                                                 *)

CopierTypes == /\ files \in Seq(FileKinds) /\ badInput \in BOOLEAN
               /\ optind \in 1 .. (Len(files) + 1)
               /\ ret \in {0, 1} /\ left \in 0 .. K
               /\ copied \in Seq(Nat \X Nat)

SimpleCatInv == Is("simplecat") =>
    /\ Len(copied) = K - left /\ \A k \in DOMAIN copied : copied[k] = <<1, k>>
    /\ At(0, "ended") => left = 0

\* The options that matter here: none, and the sizes that cat.c reads nothing with.
NoOption == opt = ""
NoRoom == opt = "0"
BadSize == opt = "-1"

\* What is printed of each file, and what the exit status says of those that are done.
CatPrinted == \A i \in DOMAIN copied :
    /\ copied[i][1] \in 1 .. optind /\ copied[i][2] \in 1 .. K
    /\ copied[i][1] = optind => At(0, "read") /\ copied[i][2] <= (K - left)
    /\ \A j \in DOMAIN copied : i < j => Before(copied[i], copied[j])
CatStatus ==
    /\ NoRoom \/ BadSize => copied = <<>>
    /\ NoOption => /\ ret = 0 <=> \A f \in 1 .. (optind - 1) : files[f] = "file" /\ ~badInput
                   /\ \A f \in 1 .. (optind - 1) : files[f] = "file" =>
                        \A k \in 1 .. K : \E i \in DOMAIN copied : copied[i] = <<f, k>>
CatReading ==
    /\ At(0, "read") =>
          /\ optind <= Len(files) /\ ~BadSize /\ argument \in {"file", "dir"}
          /\ NoOption /\ argument = "file" =>
                \A k \in 1 .. (K - left) : \E i \in DOMAIN copied : copied[i] = <<optind, k>>
    /\ At(0, "ended") => optind > Len(files)
CatInv == Is("cat") => CatPrinted /\ CatStatus /\ CatReading

\* As long as the connection holds, what has been read has been sent.
Sending ==
    /\ Len(back[1]) <= (K - left) /\ \A k \in DOMAIN back[1] : back[1][k] = k
    /\ At(0, "start") => conn[1] = "new" /\ left = K
    /\ pc[0] \in {"read", "write", "refused"} => conn[1] # "new"
    /\ At(0, "write") => left < K
    /\ conn[1] \in {"open", "fin"} =>
          /\ pc[0] \in {"read", "refused"} => Len(back[1]) = K - left
          /\ At(0, "write") => Len(back[1]) = K - left - 1
          /\ At(0, "ended") => Len(back[1]) = K
LingerEnds == Is("linger") /\ At(0, "ended") => ~badInput
SenderInv == program \in {"connect", "linger"} => Sending /\ LingerEnds
-----------------------------------------------------------------------------
(* The pairs.                                                              *)

ExchangeTypes == /\ heard = [a \in {0, 1} |-> heard[a]]
                 /\ grams \in Seq({"short", "long"}) /\ Len(grams) <= K
                 /\ net \subseteq 0 .. Len(grams) /\ stranger \in BOOLEAN

\* What connect-only.c has read is what write-select.c has written and the kernel
\* does not have any more.
Numbered ==
    /\ \A k \in DOMAIN back[1] : back[1][k] = k
    /\ heard[1] \in Seq(Nat) /\ Len(heard[1]) = total - unread[1]
    /\ \A k \in DOMAIN heard[1] : heard[1][k] = k
WriteSelectInv == Is("writeselect") => Numbered

\* The datagrams the server has got were sent, and what was too long is cut off.
Datagrams ==
    /\ heard[0] \in Seq(Nat \X {"head", "short"})
    /\ \A i \in DOMAIN heard[0] : /\ heard[0][i][1] \in DOMAIN grams
                                  /\ (heard[0][i][2] = "head") = (grams[heard[0][i][1]] = "long")
    /\ 0 \in net \/ At(0, "ended") => stranger
UdpInv == Is("udp") => Datagrams

\* The server answers after it has read, and the client reads before it ends.
Meeting ==
    /\ pc[0] \in {"start", "socket", "accept", "read"} => heard[0] = <<>> /\ unread[1] = 0
    /\ pc[0] \in {"write", "ended"} => heard[0] = <<Hello>>
    /\ pc[0] = "failed" => unread[1] = 0
    /\ pc[0] \in {"start", "socket", "accept", "read", "write", "ended", "failed"}
    /\ At(0, "start") => At(1, "unborn")
    /\ ~At(1, "ended") => heard[1] = <<>>
    /\ heard[1] = <<GetOut>> => heard[0] = <<Hello>>
UnixInv == Is("unix") => Meeting
-----------------------------------------------------------------------------
IInv == /\ <<program, opt>> \in CommandLines /\ pc = [a \in Actors |-> pc[a]]
        /\ given \in 0 .. (K + 1)
        /\ PipeTypes /\ Network /\ ServerTypes /\ CopierTypes /\ ExchangeTypes
        /\ ServerInv /\ SimpleCatInv /\ CatInv /\ SenderInv
        /\ WriteSelectInv /\ UdpInv /\ UnixInv
-----------------------------------------------------------------------------
(* What the kernel and the peers do keeps the connections in order.        *)

LEMMA AppendFacts ==
    ASSUME NEW S, NEW s \in Seq(S), NEW v \in S
    PROVE  /\ Append(s, v) \in Seq(S) /\ Len(Append(s, v)) = Len(s) + 1
           /\ DOMAIN Append(s, v) = 1 .. (Len(s) + 1) /\ DOMAIN s = 1 .. Len(s)
           /\ \A i \in 1 .. Len(s) : Append(s, v)[i] = s[i]
           /\ Append(s, v)[Len(s) + 1] = v
  OBVIOUS

LEMMA TailFacts ==
    ASSUME NEW S, NEW s \in Seq(S), s # <<>>
    PROVE  /\ Tail(s) \in Seq(S) /\ Len(Tail(s)) = Len(s) - 1 /\ Len(s) > 0
           /\ DOMAIN Tail(s) = 1 .. (Len(s) - 1) /\ DOMAIN s = 1 .. Len(s)
           /\ \A i \in DOMAIN Tail(s) : Tail(s)[i] = s[i + 1]
           /\ Head(s) = s[1] /\ Head(s) \in S
  OBVIOUS

\* What is known of a peer's counters.
LEMMA PeerTypes ==
    ASSUME Network, NEW c \in Peers
    PROVE  /\ conn[c] \in States /\ unread[c] \in 0 .. Cap /\ unread[c] \in Nat /\ Cap \in Nat
           /\ sent[c] \in 0 .. K /\ sent[c] \in Nat /\ K \in Nat
           /\ rx[c] \in Nat /\ got[c] \in Nat
           /\ back[c] \in Seq(Words) /\ Len(back[c]) \in Nat
           /\ Arrived(c)
  <1>1. conn[c] \in States /\ unread[c] \in 0 .. Cap /\ sent[c] \in 0 .. K
    BY DEF Network, SocketTypes
  <1>2. rx[c] \in Nat /\ got[c] \in Nat /\ back[c] \in Seq(Words)
    BY DEF Network, SocketTypes
  <1>3. Len(back[c]) \in Nat
    BY <1>2
  <1> QED
    BY <1>1, <1>2, <1>3, StreamsAssumption, SocketsAssumption DEF Network, Arriving

\* Whoever is not concerned is as he was.
LEMMA OthersArrived ==
    ASSUME Network, NEW d \in Peers,
           /\ got'[d] = got[d] /\ rx'[d] = rx[d] /\ sent'[d] = sent[d] /\ conn'[d] = conn[d]
           /\ back'[d] = back[d] /\ unread'[d] = unread[d]
    PROVE  Arrived(d)'
  BY DEF Network, Arriving, Arrived

LEMMA PeerKeepsNetwork ==
    ASSUME Network, NEW c \in Peers,
           Connects(c) \/ PeerStep(c) \/ RstArrives(c)
    PROVE  Network'
  <1>0. Arrived(c)
    BY DEF Network, Arriving
  <1>1. CASE Connects(c)
    <2>1. backlog' \in Seq(Peers)
      BY <1>1, AppendFacts DEF Connects, Network, SocketTypes
    <2>2. SocketTypes'
      BY <1>1, <2>1 DEF Connects, Network, SocketTypes, Becomes, States
    <2>3. Arrived(c)'
      BY <1>1, <1>0, PeerTypes DEF Connects, Arrived, Becomes, Network, SocketTypes
    <2>4. ASSUME NEW d \in Peers, d # c PROVE Arrived(d)'
      BY <1>1, <2>4, OthersArrived DEF Connects, Becomes, Network, SocketTypes
    <2> QED
      BY <2>2, <2>3, <2>4 DEF Network, Arriving
  <1>2. CASE Sends(c)
    <2>1. sent[c] + 1 \in 0 .. K /\ rx[c] + 1 \in Nat
      BY <1>2, PeerTypes DEF Sends
    <2>2. SocketTypes'
      BY <1>2, <2>1 DEF Sends, Network, SocketTypes
    <2>3. Arrived(c)'
      BY <1>2, <1>0, PeerTypes DEF Sends, Arrived, Network, SocketTypes
    <2>4. ASSUME NEW d \in Peers, d # c PROVE Arrived(d)'
      BY <1>2, <2>4, OthersArrived DEF Sends, Network, SocketTypes
    <2> QED
      BY <2>2, <2>3, <2>4 DEF Network, Arriving
  <1>3. CASE Closes(c)
    <2>2. SocketTypes'
      BY <1>3 DEF Closes, Network, SocketTypes, Becomes, States
    <2>3. Arrived(c)'
      BY <1>3, <1>0, PeerTypes DEF Closes, Arrived, Becomes, Network, SocketTypes
    <2>4. ASSUME NEW d \in Peers, d # c PROVE Arrived(d)'
      BY <1>3, <2>4, OthersArrived DEF Closes, Becomes, Network, SocketTypes
    <2> QED
      BY <2>2, <2>3, <2>4 DEF Network, Arriving
  <1>4. CASE Resets(c)
    <2>2. SocketTypes'
      BY <1>4 DEF Resets, Network, SocketTypes, Becomes, States
    <2>3. Arrived(c)'
      BY <1>4, <1>0, PeerTypes DEF Resets, Arrived, Becomes, Network, SocketTypes
    <2>4. ASSUME NEW d \in Peers, d # c PROVE Arrived(d)'
      BY <1>4, <2>4, OthersArrived DEF Resets, Becomes, Network, SocketTypes
    <2> QED
      BY <2>2, <2>3, <2>4 DEF Network, Arriving
  <1>5. CASE Takes(c)
    <2>2. SocketTypes'
      BY <1>5, PeerTypes DEF Takes, Network, SocketTypes
    <2>3. Arrived(c)'
      BY <1>5, <1>0, PeerTypes DEF Takes, Arrived, Network, SocketTypes
    <2>4. ASSUME NEW d \in Peers, d # c PROVE Arrived(d)'
      BY <1>5, <2>4, OthersArrived DEF Takes, Network, SocketTypes
    <2> QED
      BY <2>2, <2>3, <2>4 DEF Network, Arriving
  <1>6. CASE RstArrives(c)
    <2>2. SocketTypes'
      BY <1>6 DEF RstArrives, Network, SocketTypes, Becomes, States
    <2>3. Arrived(c)'
      BY <1>6, <1>0, PeerTypes DEF RstArrives, Arrived, Becomes, Network, SocketTypes
    <2>4. ASSUME NEW d \in Peers, d # c PROVE Arrived(d)'
      BY <1>6, <2>4, OthersArrived DEF RstArrives, Becomes, Network, SocketTypes
    <2> QED
      BY <2>2, <2>3, <2>4 DEF Network, Arriving
  <1> QED
    BY <1>1, <1>2, <1>3, <1>4, <1>5, <1>6 DEF PeerStep

LEMMA CallKeepsNetwork ==
    ASSUME Network, NEW c \in Peers, NEW v \in Words,
           \/ Accepts(c) \/ SockReads(c) \/ SockEof(c) \/ SockError(c)
           \/ SockWrites(c, v) \/ SockWriteError(c) \/ UNCHANGED socketVars
    PROVE  Network'
  <1>0. Arrived(c)
    BY DEF Network, Arriving
  <1>1. CASE Accepts(c)
    <2>1. backlog' \in Seq(Peers)
      BY <1>1, TailFacts DEF Accepts, Network, SocketTypes
    <2>2. SocketTypes'
      BY <1>1, <2>1 DEF Accepts, Network, SocketTypes
    <2>3. ASSUME NEW d \in Peers PROVE Arrived(d)'
      BY <1>1, OthersArrived DEF Accepts
    <2> QED
      BY <2>2, <2>3 DEF Network, Arriving
  <1>2. CASE SockReads(c)
    <2>2. SocketTypes'
      BY <1>2, PeerTypes DEF SockReads, Network, SocketTypes
    <2>1. rx'[c] = rx[c] - 1 /\ got'[c] = got[c] + 1 /\ rx[c] > 0
      BY <1>2 DEF SockReads, Network, SocketTypes
    <2>3. (got'[c] + rx'[c]) = (got[c] + rx[c])
      BY <2>1, PeerTypes
    <2>5. Arrived(c)'
      BY <1>2, <2>3, <1>0 DEF SockReads, Arrived
    <2>4. ASSUME NEW d \in Peers, d # c PROVE Arrived(d)'
      BY <1>2, <2>4, OthersArrived DEF SockReads, Network, SocketTypes
    <2> QED
      BY <2>2, <2>5, <2>4 DEF Network, Arriving
  <1>3. CASE SockError(c) \/ SockWriteError(c)
    <2>1. conn' = [conn EXCEPT ![c] = "broken"]
      BY <1>3 DEF SockError, SockWriteError, Becomes
    <2>2. UNCHANGED <<backlog, sent, rx, got, back, unread>> /\ conn[c] = "reset"
      BY <1>3 DEF SockError, SockWriteError
    <2>3. SocketTypes'
      BY <2>1, <2>2 DEF Network, SocketTypes, States
    <2>4. Arrived(c)'
      BY <2>1, <2>2, <1>0 DEF Arrived, Network, SocketTypes
    <2>5. ASSUME NEW d \in Peers, d # c PROVE Arrived(d)'
      BY <2>1, <2>2, <2>5, OthersArrived DEF Network, SocketTypes
    <2> QED
      BY <2>3, <2>4, <2>5 DEF Network, Arriving
  <1>4. CASE SockWrites(c, v)
    <2>1. CASE /\ conn[c] \in {"closed", "poked"} /\ Becomes(c, "poked")
               /\ UNCHANGED <<backlog, sent, rx, got, back, unread>>
      <3>3. SocketTypes'
        BY <2>1 DEF Network, SocketTypes, States, Becomes
      <3>4. Arrived(c)'
        BY <2>1, <1>0 DEF Arrived, Network, SocketTypes, Becomes
      <3>5. ASSUME NEW d \in Peers, d # c PROVE Arrived(d)'
        BY <2>1, <3>5, OthersArrived DEF Network, SocketTypes, Becomes
      <3> QED
        BY <3>3, <3>4, <3>5 DEF Network, Arriving
    <2>2. CASE /\ conn[c] \in {"open", "fin"} /\ unread[c] < Cap
               /\ back' = [back EXCEPT ![c] = Append(@, v)]
               /\ unread' = [unread EXCEPT ![c] = @ + 1]
               /\ UNCHANGED <<conn, backlog, sent, rx, got>>
      <3>1. /\ Append(back[c], v) \in Seq(Words)
            /\ Len(Append(back[c], v)) = Len(back[c]) + 1
        BY AppendFacts, PeerTypes
      <3>2. back' \in [Peers -> Seq(Words)] /\ Len(back'[c]) = Len(back[c]) + 1
        BY <2>2, <3>1 DEF Network, SocketTypes
      <3>3. SocketTypes'
        BY <2>2, <3>2, PeerTypes DEF Network, SocketTypes
      <3>4. Arrived(c)'
        BY <2>2, <1>0, <3>2, PeerTypes DEF Arrived, Network, SocketTypes
      <3>5. ASSUME NEW d \in Peers, d # c PROVE Arrived(d)'
        BY <2>2, <3>5, OthersArrived DEF Network, SocketTypes
      <3> QED
        BY <3>3, <3>4, <3>5 DEF Network, Arriving
    <2> QED
      BY <1>4, <2>1, <2>2 DEF SockWrites
  <1>6. CASE UNCHANGED socketVars
    BY <1>6 DEF socketVars, Network, SocketTypes, Arriving, Arrived
  <1> QED
    BY <1>1, <1>2, <1>3, <1>4, <1>6 DEF SockEof

LEMMA PrefixFacts ==
    ASSUME NEW S, NEW s \in Seq(S), NEW n \in Nat, n <= Len(s)
    PROVE  /\ SubSeq(s, 1, n) \in Seq(S) /\ Len(SubSeq(s, 1, n)) = n
           /\ DOMAIN SubSeq(s, 1, n) = 1 .. n /\ \A k \in 1 .. n : SubSeq(s, 1, n)[k] = s[k]
  OBVIOUS

\* A close() that resets the connection: the peer keeps a part of what it was sent.
LEMMA AbortKeeps ==
    ASSUME Network, NEW c \in Peers, conn[c] # "new", Aborts(c)
    PROVE  /\ Network' /\ conn'[c] = "broken"
           /\ Len(back'[c]) <= Len(back[c]) /\ DOMAIN back'[c] \subseteq DOMAIN back[c]
           /\ \A k \in DOMAIN back'[c] : back'[c][k] = back[c][k]
  <1>1. PICK lost \in 0 .. unread[c] :
           /\ back' = [back EXCEPT ![c] = SubSeq(@, 1, Len(@) - lost)]
           /\ unread' = [unread EXCEPT ![c] = @ - lost]
    BY DEF Aborts
  <1>2. /\ conn' = [conn EXCEPT ![c] = "broken"] /\ UNCHANGED <<backlog, sent, rx, got>>
        /\ conn'[c] = "broken"
    BY DEF Aborts, Becomes, Network, SocketTypes
  <1> DEFINE n == Len(back[c]) - lost
             t == SubSeq(back[c], 1, n)
  <1>3. /\ Len(back[c]) \in Nat /\ unread[c] \in 0 .. Cap /\ Cap \in Nat /\ back[c] \in Seq(Words)
        /\ unread[c] <= Len(back[c])
    BY PeerTypes DEF Arrived
  <1>4. n \in Nat /\ n <= Len(back[c]) /\ (unread[c] - lost) \in 0 .. Cap /\ (unread[c] - lost) <= n
    BY <1>3
  <1>5. t \in Seq(Words) /\ Len(t) = n /\ DOMAIN t = 1 .. n /\ \A k \in 1 .. n : t[k] = back[c][k]
    BY <1>3, <1>4, PrefixFacts
  <1>6. back' = [back EXCEPT ![c] = t]
    BY <1>1
  <1>7. DOMAIN t \subseteq DOMAIN back[c]
    <2>1. DOMAIN back[c] = 1 .. Len(back[c])
      BY <1>3
    <2> QED
      BY <1>3, <1>4, <1>5, <2>1
  <1> HIDE DEF t
  <1>8. back'[c] = t /\ unread'[c] = unread[c] - lost
    BY <1>1, <1>6 DEF Network, SocketTypes
  <1>9. SocketTypes'
    <2>1. back' \in [Peers -> Seq(Words)]
      BY <1>5, <1>6 DEF Network, SocketTypes
    <2>2. unread' \in [Peers -> 0 .. Cap]
      BY <1>1, <1>4 DEF Network, SocketTypes
    <2> QED
      BY <1>2, <2>1, <2>2 DEF Network, SocketTypes, States
  <1>10. Arrived(c)'
    <2>1. Arrived(c)
      BY PeerTypes
    <2>2. unread'[c] <= Len(back'[c])
      BY <1>4, <1>5, <1>8
    <2> QED
      BY <1>2, <2>1, <2>2 DEF Arrived
  <1>11. ASSUME NEW d \in Peers, d # c PROVE Arrived(d)'
    BY <1>1, <1>2, <1>6, <1>11, OthersArrived DEF Network, SocketTypes
  <1>12. Network'
    BY <1>9, <1>10, <1>11 DEF Network, Arriving
  <1> QED
    BY <1>2, <1>3, <1>4, <1>5, <1>7, <1>8, <1>12
-----------------------------------------------------------------------------
(* The servers.                                                            *)

\* A step that touches neither data nor connections.
LEMMA DataKept ==
    ASSUME Serves, UNCHANGED <<program, opt, conn, backlog, sent, got, back, cur, out>>,
           (typed - lines)' = typed - lines, At(0, "echo")' <=> At(0, "echo")
    PROVE  Queued' /\ Printed' /\ InOrder' /\ AllPrinted' /\ Echoed' /\ Left'
  <1>1. Queued' /\ InOrder' /\ AllPrinted' /\ Left'
    BY DEF Serves, Queued, InOrder, AllPrinted, Left
  <1>2. Printed'
    BY DEF Serves, Printed
  <1>3. Echoed'
    BY DEF Serves, Echoed
  <1> QED
    BY <1>1, <1>2, <1>3

\* What a peer can do to his connection.
LEMMA PeerEffect ==
    ASSUME Network, NEW c \in Peers, Connects(c) \/ PeerStep(c) \/ RstArrives(c),
           NEW d \in Peers
    PROVE  /\ got' = got /\ back' = back
           /\ conn'[d] \in {"open", "fin"} => conn[d] \in {"new", "open", "fin"}
           /\ conn'[d] = "open" => conn[d] \in {"new", "open"}
           /\ conn'[d] = "new" => conn[d] = "new"
           /\ conn'[d] # "broken" => conn[d] # "broken"
           /\ sent'[d] # sent[d] => conn[d] = "open"
           /\ \/ backlog' = backlog
              \/ backlog' = Append(backlog, c) /\ conn[c] = "new" /\ conn'[c] # "new"
  <1> USE DEF Network, SocketTypes, Becomes
  <1>1. CASE Connects(c)
    BY <1>1 DEF Connects
  <1>2. CASE Sends(c)
    BY <1>2 DEF Sends
  <1>3. CASE Closes(c)
    BY <1>3 DEF Closes
  <1>4. CASE Resets(c)
    BY <1>4 DEF Resets
  <1>5. CASE Takes(c)
    BY <1>5 DEF Takes
  <1>6. CASE RstArrives(c)
    BY <1>6 DEF RstArrives
  <1> QED
    BY <1>1, <1>2, <1>3, <1>4, <1>5, <1>6 DEF PeerStep

LEMMA NewIsUnread ==
    ASSUME Network, NEW d \in Peers, conn[d] = "new"
    PROVE  got[d] = 0 /\ back[d] = <<>> /\ Len(back[d]) = 0
  <1>1. got[d] \in Nat /\ rx[d] \in Nat /\ (got[d] + rx[d]) <= sent[d] /\ sent[d] = 0 /\ back[d] = <<>>
    BY PeerTypes DEF Arrived
  <1> QED
    BY <1>1

\* Whatever the peers do, the server stays in order.
LEMMA PeerKeepsServer ==
    ASSUME Network, ServerTypes, Serves, NEW c \in Peers,
           Connects(c) \/ PeerStep(c) \/ RstArrives(c),
           UNCHANGED <<program, opt, pc, serverVars>>
    PROVE  ServerTypes' /\ Serves'
  <1>0. UNCHANGED <<cur, out, lines, typed, eof, ready>>
    BY DEF serverVars
  <1>1. ServerTypes' /\ Serving'
    BY <1>0 DEF ServerTypes, Serves, Serving, At
  <1>2. got' = got /\ back' = back
    BY PeerEffect
  <1>3. Printed' /\ InOrder' /\ AllPrinted'
    BY <1>0, <1>2 DEF Serves, Printed, InOrder, AllPrinted
  <1>4. Left'
    <2> SUFFICES ASSUME NEW d \in Peers, got[d] > 0, cur # d
                 PROVE  conn'[d] # "open" /\ (conn'[d] # "broken" => got[d] = sent'[d])
      BY <1>0, <1>2 DEF Left
    <2>1. conn[d] # "open" /\ (conn[d] # "broken" => got[d] = sent[d])
      BY DEF Serves, Left
    <2>2. conn[d] # "new"
      BY NewIsUnread
    <2> QED
      BY <2>1, <2>2, PeerEffect
  <1>5. Echoed'
    <2> SUFFICES ASSUME NEW d \in Peers
                 PROVE  /\ Len(back[d]) <= got[d] /\ \A k \in DOMAIN back[d] : back[d][k] = k
                        /\ conn'[d] \in {"open", "fin"} /\ program \in {"echo", "inetd"} =>
                             Len(back[d]) = got[d] - (IF At(0, "echo") /\ cur = d THEN 1 ELSE 0)
      BY <1>0, <1>2 DEF Echoed, At
    <2>1. /\ Len(back[d]) <= got[d] /\ \A k \in DOMAIN back[d] : back[d][k] = k
          /\ conn[d] \in {"open", "fin"} /\ program \in {"echo", "inetd"} =>
                Len(back[d]) = got[d] - (IF At(0, "echo") /\ cur = d THEN 1 ELSE 0)
      BY DEF Serves, Echoed
    <2>2. conn[d] = "new" => Len(back[d]) = 0 /\ got[d] = 0
      BY NewIsUnread
    <2>3. conn[d] = "new" /\ At(0, "echo") => cur # d
      BY DEF Serves, Serving, Queued, At, Peers
    <2> QED
      BY <2>1, <2>2, <2>3, PeerEffect
  <1>6. Queued'
    <2>1. CASE backlog' = backlog
      <3>1. \A d \in Peers : conn'[d] = "new" => conn[d] = "new"
        BY PeerEffect
      <3>2. \A i \in DOMAIN backlog : backlog[i] \in Peers
        BY DEF Network, SocketTypes
      <3> QED
        BY <1>0, <1>2, <2>1, <3>1, <3>2 DEF Serves, Queued, ServerTypes
    <2>2. CASE backlog' = Append(backlog, c) /\ conn[c] = "new" /\ conn'[c] # "new"
      <3>1. /\ DOMAIN backlog' = 1 .. (Len(backlog) + 1) /\ DOMAIN backlog = 1 .. Len(backlog)
            /\ \A i \in 1 .. Len(backlog) : backlog'[i] = backlog[i] /\ backlog[i] \in Peers
            /\ backlog'[Len(backlog) + 1] = c /\ Len(backlog) \in Nat
        BY <2>2, AppendFacts DEF Network, SocketTypes
      <3>2. \A d \in Peers : conn'[d] = "new" => conn[d] = "new"
        BY PeerEffect
      <3>3. cur' = cur /\ (cur # 0 => conn'[cur] # "new" /\ cur # c)
        BY <1>0, <2>2, <3>2 DEF Serves, Queued, ServerTypes
      <3>4. got[c] = 0
        BY <2>2, NewIsUnread
      <3>5. c # cur
        BY <3>3 DEF Peers
      <3>6. ASSUME NEW i \in 1 .. (Len(backlog) + 1)
            PROVE  conn'[backlog'[i]] # "new" /\ got'[backlog'[i]] = 0 /\ backlog'[i] # cur'
        <4>1. CASE i = Len(backlog) + 1
          BY <1>2, <2>2, <3>1, <3>3, <3>4, <3>5, <4>1
        <4>2. CASE i \in 1 .. Len(backlog)
          BY <1>2, <3>1, <3>2, <3>3, <4>2 DEF Serves, Queued
        <4> QED
          BY <3>1, <4>1, <4>2
      <3>7. ASSUME NEW i \in 1 .. Len(backlog) PROVE backlog[i] # c
        BY <2>2, <3>1 DEF Serves, Queued
      <3>8. ASSUME NEW i \in 1 .. (Len(backlog) + 1), NEW j \in 1 .. (Len(backlog) + 1), i # j
            PROVE  backlog'[j] # backlog'[i]
        <4>1. CASE i \in 1 .. Len(backlog) /\ j \in 1 .. Len(backlog)
          BY <3>1, <3>8, <4>1 DEF Serves, Queued
        <4>2. CASE i = Len(backlog) + 1 \/ j = Len(backlog) + 1
          BY <3>1, <3>7, <3>8, <4>2
        <4> QED
          BY <3>1, <4>1, <4>2
      <3> QED
        BY <3>1, <3>3, <3>6, <3>8 DEF Queued
    <2> QED
      BY <2>1, <2>2, PeerEffect
  <1> QED
    BY <1>1, <1>3, <1>4, <1>5, <1>6 DEF Serves

\* Reading a piece, and printing it.
LEMMA ReadDataKeeps ==
    ASSUME Network, ServerTypes, Serves, cur # 0, ReadData, UNCHANGED <<program, opt>>,
           pc = [a \in Actors |-> pc[a]]
    PROVE  ServerTypes' /\ Serves'
  <1> DEFINE v == <<cur, got[cur] + 1>>
             L == Len(out)
  <1>1. /\ cur \in Peers /\ got[cur] \in Nat /\ (got[cur] + 1) \in Nat
        /\ v \in ({0} \cup Peers) \X Nat /\ v[1] = cur /\ v[2] = got[cur] + 1
        /\ out \in Seq(({0} \cup Peers) \X Nat) /\ L \in Nat /\ DOMAIN out = 1 .. L
    BY PeerTypes DEF ServerTypes
  <1>2. /\ got' = [got EXCEPT ![cur] = @ + 1] /\ got'[cur] = got[cur] + 1
        /\ \A d \in Peers : d # cur => got'[d] = got[d]
        /\ UNCHANGED <<conn, backlog, sent, back, cur, lines, typed>>
    BY <1>1 DEF ReadData, SockReads, terminal, Network, SocketTypes
  <1>3. /\ out' = out \/ out' = Append(out, v)
        /\ program \in {"sink", "echo", "reuse", "select"} => out' = Append(out, v)
    BY DEF ReadData, Written, Is
  <1>4. /\ At(0, "read") /\ pc'[0] \in {"read", "echo"}
        /\ pc'[0] = "echo" <=> program \in {"echo", "inetd"}
    BY DEF ReadData, Moves, At, Goto, Actors
  <1>5. /\ Append(out, v) \in Seq(({0} \cup Peers) \X Nat)
        /\ DOMAIN Append(out, v) = 1 .. (L + 1) /\ Len(Append(out, v)) = L + 1
        /\ \A i \in 1 .. L : Append(out, v)[i] = out[i]
        /\ Append(out, v)[L + 1] = v
    BY <1>1, AppendFacts
  <1>15. L \in Nat
    BY <1>1
  <1> HIDE DEF v, L
  <1>6. ServerTypes'
    BY <1>2, <1>3, <1>5 DEF ServerTypes
  <1>7. Serving'
    BY <1>2, <1>4 DEF Serves, Serving, At
  <1>8. Queued'
    BY <1>1, <1>2 DEF Serves, Queued, Network, SocketTypes
  <1>9. Left'
    BY <1>2 DEF Serves, Left
  <1>10. Echoed'
    <2> SUFFICES ASSUME NEW d \in Peers
                 PROVE  /\ Len(back[d]) <= got'[d] /\ \A k \in DOMAIN back[d] : back[d][k] = k
                        /\ conn[d] \in {"open", "fin"} /\ program \in {"echo", "inetd"} =>
                             Len(back[d]) = got'[d] - (IF pc'[0] = "echo" /\ cur = d THEN 1 ELSE 0)
      BY <1>2 DEF Echoed, At
    <2>1. /\ Len(back[d]) <= got[d] /\ \A k \in DOMAIN back[d] : back[d][k] = k
          /\ conn[d] \in {"open", "fin"} /\ program \in {"echo", "inetd"} => Len(back[d]) = got[d]
      BY <1>4, PeerTypes DEF Serves, Echoed, At
    <2>2. got[d] \in Nat /\ Len(back[d]) \in Nat
      BY PeerTypes
    <2>3. CASE d = cur
      BY <1>1, <1>2, <1>4, <2>1, <2>2, <2>3
    <2>4. CASE d # cur
      BY <1>2, <2>1, <2>2, <2>4
    <2> QED
      BY <2>3, <2>4
  <1>11. \A i \in 1 .. L : out[i] \in ({0} \cup Peers) \X Nat
    BY <1>1
  <1>12. \A d \in Peers : got[d] \in Nat /\ got'[d] \in Nat /\ got[d] <= got'[d]
    <2> SUFFICES ASSUME NEW d \in Peers PROVE got[d] \in Nat /\ got'[d] \in Nat /\ got[d] <= got'[d]
      OBVIOUS
    <2>1. got[d] \in Nat
      BY PeerTypes
    <2> QED
      BY <1>2, <2>1
  <1>13. CASE out' = out
    <2>1. Printed'
      <3> SUFFICES ASSUME NEW i \in DOMAIN out
                   PROVE  /\ out[i][1] = 0 => out[i][2] \in 1 .. (typed - lines)
                          /\ \A c \in Peers : out[i][1] = c => out[i][2] \in 1 .. got'[c]
                          /\ out[i][1] = cur => \A j \in i .. Len(out) : out[j][1] = cur \/ cur = 0
        BY <1>2, <1>13 DEF Printed
      <3>1. /\ out[i][1] = 0 => out[i][2] \in 1 .. (typed - lines)
            /\ \A c \in Peers : out[i][1] = c => out[i][2] \in 1 .. got[c]
            /\ out[i][1] = cur => \A j \in i .. Len(out) : out[j][1] = cur \/ cur = 0
        BY DEF Serves, Printed
      <3> QED
        BY <1>12, <3>1
    <2>2. InOrder' /\ AllPrinted'
      BY <1>3, <1>5, <1>13, <1>1 DEF Serves, InOrder, AllPrinted
    <2> QED
      BY <2>1, <2>2, <1>6, <1>7, <1>8, <1>9, <1>10 DEF Serves
  <1>14. CASE out' = Append(out, v)
    <2>0. /\ DOMAIN out' = 1 .. (L + 1) /\ Len(out') = L + 1
          /\ \A i \in 1 .. L : out'[i] = out[i]
          /\ out'[L + 1] = v
      BY <1>5, <1>14
    <2>1. \A i \in 1 .. L : /\ out[i][1] = 0 => out[i][2] \in 1 .. (typed - lines)
                            /\ \A c \in Peers : out[i][1] = c => out[i][2] \in 1 .. got[c]
                            /\ out[i][1] = cur => \A j \in i .. L : out[j][1] = cur
      BY <1>1 DEF Serves, Printed, Peers, L
    <2>2. Printed'
      <3> SUFFICES ASSUME NEW i \in 1 .. (L + 1)
                   PROVE  /\ out'[i][1] = 0 => out'[i][2] \in 1 .. (typed - lines)
                          /\ \A c \in Peers : out'[i][1] = c => out'[i][2] \in 1 .. got'[c]
                          /\ out'[i][1] = cur => \A j \in i .. (L + 1) : out'[j][1] = cur
        BY <1>2, <2>0 DEF Printed
      <3>1. CASE i = L + 1
        <4>1. cur # 0
          OBVIOUS
        <4> QED
          BY <1>1, <1>2, <2>0, <3>1, <4>1
      <3>2. CASE i \in 1 .. L
        <4>1. \A c \in Peers : out'[i][1] = c => out'[i][2] \in 1 .. got'[c]
          BY <1>12, <2>0, <2>1, <3>2
        <4>2. out'[i][1] = cur => \A j \in i .. (L + 1) : out'[j][1] = cur
          <5> SUFFICES ASSUME out'[i][1] = cur, NEW j \in i .. (L + 1) PROVE out'[j][1] = cur
            OBVIOUS
          <5>1. CASE j = L + 1
            BY <1>1, <2>0, <5>1
          <5>2. CASE j \in i .. L
            BY <1>1, <2>0, <2>1, <3>2, <5>2
          <5>3. j = L + 1 \/ j \in i .. L
            BY <1>15, <3>2
          <5> QED
            BY <5>1, <5>2, <5>3
        <4> QED
          BY <2>0, <2>1, <3>2, <4>1, <4>2
      <3> QED
        BY <1>1, <3>1, <3>2
    <2>3. InOrder'
      <3> SUFFICES ASSUME NEW i \in 1 .. (L + 1), NEW j \in 1 .. (L + 1),
                          i < j, out'[i][1] = out'[j][1]
                   PROVE  /\ out'[i][2] < out'[j][2]
                          /\ out'[i][1] # 0 => \A k \in i .. j : out'[k][1] = out'[i][1]
        BY <2>0 DEF InOrder
      <3>1. i \in 1 .. L
        BY <1>1
      <3>2. CASE j \in 1 .. L
        <4>1. /\ out[i][2] < out[j][2]
              /\ out[i][1] # 0 => \A k \in i .. j : out[k][1] = out[i][1]
          BY <1>1, <2>0, <3>1, <3>2 DEF Serves, InOrder
        <4>2. \A k \in i .. j : k \in 1 .. L
          BY <1>1, <3>1, <3>2
        <4> QED
          BY <2>0, <3>1, <3>2, <4>1, <4>2
      <3>3. CASE j = L + 1
        <4>1. out[i][1] = cur /\ out[i][2] \in 1 .. got[cur]
          BY <1>1, <2>0, <2>1, <3>1, <3>3
        <4>2. \A k \in i .. (L + 1) : out'[k][1] = cur
          BY <1>1, <1>2, <2>0, <2>2, <4>1, <3>1 DEF Printed
        <4> QED
          BY <1>1, <2>0, <3>1, <3>3, <4>1, <4>2
      <3>4. j = L + 1 \/ j \in 1 .. L
        BY <1>15
      <3> QED
        BY <3>2, <3>3, <3>4
    <2>4. AllPrinted'
      <3> SUFFICES ASSUME program \in {"sink", "echo", "reuse", "select"},
                          NEW c \in Peers, NEW k \in 1 .. got'[c]
                   PROVE  \E i \in 1 .. (L + 1) : out'[i] = <<c, k>>
        BY <1>2, <2>0 DEF AllPrinted
      <3>1. CASE k \in 1 .. got[c]
        <4>1. PICK i \in 1 .. L : out[i] = <<c, k>>
          BY <1>1, <3>1 DEF Serves, AllPrinted
        <4>2. out'[i] = out[i] /\ i \in 1 .. (L + 1)
          BY <1>15, <2>0
        <4> QED
          BY <4>1, <4>2
      <3>2. CASE k \notin 1 .. got[c]
        <4>1. c = cur
          BY <1>2, <3>2
        <4>2. k = got[cur] + 1
          BY <1>2, <1>12, <3>2, <4>1
        <4> QED
          BY <1>15, <2>0, <4>1, <4>2 DEF v
      <3> QED
        BY <3>1, <3>2
    <2> QED
      BY <2>2, <2>3, <2>4, <1>6, <1>7, <1>8, <1>9, <1>10 DEF Serves
  <1> QED
    BY <1>3, <1>13, <1>14

\* Taking the first connection from the backlog, of which nothing has been read.
LEMMA AcceptKeeps ==
    ASSUME Network, ServerTypes, Serves, NEW l \in {"accept", "sock"}, Accept(l),
           UNCHANGED <<program, opt>>, pc = [a \in Actors |-> pc[a]]
    PROVE  ServerTypes' /\ Serves'
  <1>1. PICK c \in Peers : Accepts(c) /\ cur' = c
    BY DEF Accept
  <1>2. /\ At(0, l) /\ pc'[0] = "read" /\ cur = 0 /\ UNCHANGED <<out, lines, typed>>
    BY DEF Accept, Moves, Goto, At, Actors, Serves, Serving, terminal
  <1>3. /\ backlog' = Tail(backlog) /\ backlog # <<>> /\ c = Head(backlog)
        /\ UNCHANGED <<conn, sent, rx, got, back, unread>>
    BY <1>1 DEF Accepts
  <1>4. /\ DOMAIN backlog' = 1 .. (Len(backlog) - 1) /\ DOMAIN backlog = 1 .. Len(backlog)
        /\ \A i \in DOMAIN backlog' : backlog'[i] = backlog[i + 1]
        /\ c = backlog[1] /\ Len(backlog) \in Nat /\ Len(backlog) > 0
    BY <1>3, TailFacts DEF Network, SocketTypes
  <1>5. got[c] = 0 /\ conn[c] # "new" /\ \A j \in 2 .. Len(backlog) : backlog[j] # c
    BY <1>4 DEF Serves, Queued
  <1>6. ServerTypes' /\ Serving'
    BY <1>1, <1>2 DEF ServerTypes, Serving, At, Peers
  <1>7. Queued'
    <2>1. \A i \in 1 .. (Len(backlog) - 1) : (i + 1) \in 2 .. Len(backlog) /\ (i + 1) \in DOMAIN backlog
      BY <1>4
    <2>2. \A i \in DOMAIN backlog' : /\ conn[backlog'[i]] # "new" /\ got[backlog'[i]] = 0
                                     /\ backlog'[i] # c
      BY <1>4, <1>5, <2>1 DEF Serves, Queued
    <2>3. \A i \in DOMAIN backlog' : \A j \in DOMAIN backlog' : j # i => backlog'[j] # backlog'[i]
      <3> SUFFICES ASSUME NEW i \in DOMAIN backlog', NEW j \in DOMAIN backlog', j # i
                   PROVE  backlog[j + 1] # backlog[i + 1]
        BY <1>4
      <3>1. (j + 1) # (i + 1) /\ (i + 1) \in DOMAIN backlog /\ (j + 1) \in DOMAIN backlog
        BY <1>4, <2>1
      <3> QED
        BY <3>1 DEF Serves, Queued
    <2> QED
      BY <1>1, <1>3, <1>5, <2>2, <2>3 DEF Queued
  <1>8. Left'
    <2>1. \A d \in Peers : d # 0
      BY DEF Peers
    <2> QED
      BY <1>1, <1>2, <1>3, <2>1 DEF Serves, Left
  <1>9. InOrder' /\ AllPrinted'
    BY <1>2, <1>3 DEF Serves, InOrder, AllPrinted
  <1>10. Printed'
    <2> SUFFICES ASSUME NEW i \in DOMAIN out
                 PROVE  /\ out[i][1] = 0 => out[i][2] \in 1 .. (typed - lines)
                        /\ \A d \in Peers : out[i][1] = d => out[i][2] \in 1 .. got[d]
                        /\ out[i][1] # c
      BY <1>1, <1>2, <1>3 DEF Printed
    <2>1. /\ out[i][1] = 0 => out[i][2] \in 1 .. (typed - lines)
          /\ \A d \in Peers : out[i][1] = d => out[i][2] \in 1 .. got[d]
      BY DEF Serves, Printed
    <2> QED
      BY <1>5, <2>1
  <1>11. Echoed'
    <2>1. ~At(0, "echo") /\ ~At(0, "echo")'
      BY <1>2 DEF At
    <2> QED
      BY <1>3, <2>1 DEF Serves, Echoed
  <1> QED
    BY <1>6, <1>7, <1>8, <1>9, <1>10, <1>11 DEF Serves

\* The error that says that the connection was reset.
LEMMA ErrorKeeps ==
    ASSUME Network, ServerTypes, Serves, cur # 0, conn[cur] = "reset", Becomes(cur, "broken"),
           UNCHANGED <<program, opt, backlog, sent, got, back, serverVars>>,
           pc'[0] \in {"read", "failed", "ended"}
    PROVE  ServerTypes' /\ Serves'
  <1>1. /\ cur \in Peers /\ conn' = [conn EXCEPT ![cur] = "broken"]
        /\ UNCHANGED <<cur, out, lines, typed>>
    BY DEF ServerTypes, Becomes, serverVars
  <1>2. \A d \in Peers : conn'[d] = IF d = cur THEN "broken" ELSE conn[d]
    BY <1>1 DEF Network, SocketTypes
  <1>3. ServerTypes' /\ Serving'
    BY <1>1 DEF ServerTypes, Serving, At
  <1>4. Queued'
    <2>1. \A i \in DOMAIN backlog : backlog[i] \in Peers
      BY DEF Network, SocketTypes
    <2> QED
      BY <1>1, <1>2, <2>1 DEF Serves, Queued
  <1>5. Printed' /\ InOrder' /\ AllPrinted'
    BY <1>1 DEF Serves, Printed, InOrder, AllPrinted
  <1>6. Echoed'
    BY <1>1, <1>2 DEF Serves, Echoed, At
  <1>7. Left'
    BY <1>1, <1>2 DEF Serves, Left
  <1> QED
    BY <1>3, <1>4, <1>5, <1>6, <1>7 DEF Serves

\* At end of file all has been read that was not lost.
LEMMA ReadEofKeeps ==
    ASSUME Network, ServerTypes, Serves, cur # 0, ReadEof, UNCHANGED <<program, opt>>,
           pc = [a \in Actors |-> pc[a]]
    PROVE  ServerTypes' /\ Serves'
  <1>1. /\ cur \in Peers /\ rx[cur] = 0 /\ conn[cur] \in {"fin", "closed", "poked", "broken"}
        /\ UNCHANGED <<conn, backlog, sent, got, back, out, lines, typed>> /\ cur' = 0
    BY DEF ServerTypes, ReadEof, SockEof, socketVars, terminal
  <1>2. At(0, "read") /\ pc'[0] \in {"ended", "select", "stdin", "accept"}
    BY DEF ReadEof, Moves, At, Goto, Actors, Top
  <1>3. ServerTypes' /\ Serving'
    BY <1>1, <1>2 DEF ServerTypes, Serving, At
  <1>4. Queued'
    <2>1. \A i \in DOMAIN backlog : backlog[i] \in Peers /\ backlog[i] # 0
      BY DEF Network, SocketTypes, Peers
    <2> QED
      BY <1>1, <2>1 DEF Serves, Queued
  <1>5. Printed' /\ InOrder' /\ AllPrinted'
    BY <1>1 DEF Serves, Printed, InOrder, AllPrinted
  <1>6. Echoed'
    BY <1>1, <1>2 DEF Serves, Echoed, At
  <1>7. Left'
    <2>1. conn[cur] # "broken" => got[cur] = sent[cur]
      <3>1. got[cur] \in Nat /\ (conn[cur] \notin {"reset", "broken"} => (got[cur] + 0) = sent[cur])
        BY <1>1, PeerTypes DEF Arrived
      <3> QED
        BY <1>1, <3>1
    <2> QED
      BY <1>1, <2>1 DEF Serves, Left
  <1> QED
    BY <1>3, <1>4, <1>5, <1>6, <1>7 DEF Serves

\* Writing a piece back, as long as there is a connection.
LEMMA EchoKeeps ==
    ASSUME Network, ServerTypes, Serves, cur # 0, Echo, UNCHANGED <<program, opt>>,
           pc = [a \in Actors |-> pc[a]]
    PROVE  ServerTypes' /\ Serves'
  <1>1. /\ cur \in Peers /\ UNCHANGED <<cur, out, lines, typed>> /\ UNCHANGED serverVars
        /\ At(0, "echo") /\ program \in {"echo", "inetd"}
    BY DEF ServerTypes, Echo, serverVars, Serves, Serving
  <1>2. CASE /\ conn[cur] \in {"open", "fin"} /\ back' = [back EXCEPT ![cur] = Append(@, got[cur])]
             /\ UNCHANGED <<conn, backlog, sent, rx, got>> /\ Goto(0, "read")
    <2>1. /\ pc'[0] = "read" /\ got[cur] \in Nat /\ back[cur] \in Seq(Words)
          /\ Len(back[cur]) = got[cur] - 1 /\ \A k \in DOMAIN back[cur] : back[cur][k] = k
      BY <1>1, <1>2, PeerTypes DEF Goto, Actors, Serves, Echoed
    <2>2. got[cur] \in Words
      BY <2>1 DEF Words
    <2>3. /\ Len(Append(back[cur], got[cur])) = got[cur]
          /\ DOMAIN Append(back[cur], got[cur]) = 1 .. got[cur]
          /\ \A k \in 1 .. got[cur] : Append(back[cur], got[cur])[k] = k
      <3>1. /\ Len(Append(back[cur], got[cur])) = Len(back[cur]) + 1
            /\ DOMAIN Append(back[cur], got[cur]) = 1 .. (Len(back[cur]) + 1)
            /\ DOMAIN back[cur] = 1 .. Len(back[cur])
            /\ \A k \in 1 .. Len(back[cur]) : Append(back[cur], got[cur])[k] = back[cur][k]
            /\ Append(back[cur], got[cur])[Len(back[cur]) + 1] = got[cur]
        BY <2>1, <2>2, AppendFacts
      <3>2. Len(back[cur]) + 1 = got[cur]
        BY <2>1
      <3>3. \A k \in 1 .. got[cur] : k = got[cur] \/ k \in 1 .. Len(back[cur])
        BY <2>1
      <3> QED
        BY <2>1, <3>1, <3>2, <3>3
    <2>4. back'[cur] = Append(back[cur], got[cur]) /\ \A d \in Peers : d # cur => back'[d] = back[d]
      BY <1>1, <1>2 DEF Network, SocketTypes
    <2>5. Echoed'
      <3>1. ~At(0, "echo")' /\ got' = got /\ conn' = conn /\ cur' = cur /\ program' = program
        BY <1>1, <1>2, <2>1 DEF At
      <3>2. ASSUME NEW d \in Peers
            PROVE  /\ Len(back'[d]) <= got[d] /\ \A k \in DOMAIN back'[d] : back'[d][k] = k
                   /\ conn[d] \in {"open", "fin"} => Len(back'[d]) = got[d]
        <4>1. CASE d = cur
          <5>1. back'[d] = Append(back[cur], got[cur]) /\ got[d] = got[cur]
            BY <2>4, <4>1
          <5>2. Len(back'[d]) = got[d] /\ DOMAIN back'[d] = 1 .. got[d]
            BY <2>3, <5>1
          <5>3. \A k \in 1 .. got[d] : back'[d][k] = k
            BY <2>3, <5>1
          <5>4. got[d] \in Nat
            BY PeerTypes
          <5> QED
            BY <5>2, <5>3, <5>4
        <4>2. CASE d # cur
          BY <1>1, <2>4, <4>2, PeerTypes DEF Serves, Echoed
        <4> QED
          BY <4>1, <4>2
      <3>3. \A d \in Peers : got[d] \in Nat
        BY PeerTypes
      <3> HIDE <1>2
      <3> QED
        BY <3>1, <3>2, <3>3 DEF Echoed
    <2>6. ServerTypes' /\ Serving'
      BY <1>1, <2>1 DEF ServerTypes, Serves, Serving, At
    <2>7. Queued' /\ Left' /\ Printed' /\ InOrder' /\ AllPrinted'
      BY <1>1, <1>2 DEF Serves, Queued, Left, Printed, InOrder, AllPrinted
    <2> QED
      BY <2>5, <2>6, <2>7 DEF Serves
  <1>3. CASE /\ conn[cur] \in {"closed", "poked"} /\ Becomes(cur, "poked")
             /\ UNCHANGED <<backlog, sent, rx, got, back, unread>> /\ Goto(0, "read")
    <2>1. pc'[0] = "read" /\ \A d \in Peers : conn'[d] = IF d = cur THEN "poked" ELSE conn[d]
      BY <1>1, <1>3 DEF Goto, Actors, Becomes, Network, SocketTypes
    <2>2. ServerTypes' /\ Serving'
      BY <1>1, <2>1 DEF ServerTypes, Serves, Serving, At
    <2>3. Queued'
      <3>1. \A i \in DOMAIN backlog : backlog[i] \in Peers
        BY DEF Network, SocketTypes
      <3> QED
        BY <1>1, <1>3, <2>1, <3>1 DEF Serves, Queued
    <2>4. Printed' /\ InOrder' /\ AllPrinted' /\ Left'
      BY <1>1, <1>3, <2>1 DEF Serves, Printed, InOrder, AllPrinted, Left
    <2>5. Echoed'
      BY <1>1, <1>3, <2>1 DEF Serves, Echoed, At
    <2> QED
      BY <2>2, <2>3, <2>4, <2>5 DEF Serves
  <1>4. CASE SockWriteError(cur) /\ Goto(0, IF Is("inetd") THEN "failed" ELSE "read")
    <2>1. pc'[0] \in {"read", "failed", "ended"}
      BY <1>4 DEF Goto, Actors
    <2> QED
      BY <1>1, <1>4, <2>1, ErrorKeeps DEF SockWriteError
  <1>5. CASE SigPipe(cur)
    <2>1. pc'[0] = "killed" /\ conn[cur] = "broken" /\ UNCHANGED <<conn, backlog, sent, got, back>>
      BY <1>5 DEF SigPipe, Goto, Actors, socketVars
    <2>2. ServerTypes' /\ Serving'
      BY <1>1, <2>1 DEF ServerTypes, Serving, At
    <2>3. Queued' /\ Left' /\ Printed' /\ InOrder' /\ AllPrinted'
      BY <1>1, <2>1 DEF Serves, Queued, Left, Printed, InOrder, AllPrinted
    <2>4. Echoed'
      BY <1>1, <2>1 DEF Serves, Echoed, At
    <2> QED
      BY <2>2, <2>3, <2>4 DEF Serves
  <1> QED
    BY <1>2, <1>3, <1>4, <1>5 DEF Echo, SockWrites

\* Reading a line, and printing it.
LEMMA ReadLineKeeps ==
    ASSUME Network, ServerTypes, Serves, At(0, "stdin"), lines > 0, Goto(0, "sock"),
           lines' = lines - 1, out' \in Written(<<0, typed - lines + 1>>),
           UNCHANGED <<program, opt, cur, typed, eof, ready, socketVars>>,
           pc = [a \in Actors |-> pc[a]]
    PROVE  ServerTypes' /\ Serves'
  <1> DEFINE n == typed - lines + 1
             v == <<0, n>>
             L == Len(out)
  <1>1. /\ lines \in Nat /\ typed \in Nat /\ lines <= typed /\ n \in Nat /\ n > 0
        /\ v \in ({0} \cup Peers) \X Nat /\ v[1] = 0 /\ v[2] = n
        /\ out \in Seq(({0} \cup Peers) \X Nat) /\ L \in Nat /\ DOMAIN out = 1 .. L
    BY ServersAssumption DEF ServerTypes
  <1>2. (typed - lines)' = n /\ (typed - lines) = n - 1 /\ lines' \in Nat /\ lines' <= typed
    BY <1>1
  <1>3. cur = 0 /\ pc'[0] = "sock" /\ ~At(0, "echo") /\ UNCHANGED <<conn, backlog, sent, got, back, cur>>
    BY DEF Serves, Serving, At, Goto, Actors, socketVars
  <1>4. out' = out \/ out' = Append(out, v)
    BY DEF Written
  <1>5. /\ Append(out, v) \in Seq(({0} \cup Peers) \X Nat)
        /\ DOMAIN Append(out, v) = 1 .. (L + 1) /\ Len(Append(out, v)) = L + 1
        /\ \A i \in 1 .. L : Append(out, v)[i] = out[i]
        /\ Append(out, v)[L + 1] = v
    BY <1>1, AppendFacts
  <1>6. v[1] = 0 /\ v[2] = n /\ n \in Nat /\ L \in Nat /\ DOMAIN out = 1 .. L /\ n > 0
    BY <1>1
  <1> HIDE DEF v, L, n
  <1>7. ServerTypes'
    BY <1>1, <1>2, <1>3, <1>4, <1>5 DEF ServerTypes
  <1>8. Serving' /\ Queued' /\ Left'
    BY <1>3 DEF Serves, Serving, Queued, Left, At
  <1>9. Echoed'
    <2>1. ~At(0, "echo")'
      BY <1>3 DEF At
    <2> QED
      BY <1>3, <2>1 DEF Serves, Echoed
  <1>10. \A i \in 1 .. L : /\ out[i][1] = 0 => out[i][2] \in 1 .. (n - 1)
                           /\ \A c \in Peers : out[i][1] = c => out[i][2] \in 1 .. got[c]
    BY <1>2, <1>6 DEF Serves, Printed
  <1>11. CASE out' = out
    <2>1. Printed'
      <3>1. \A i \in 1 .. L : out[i][1] = 0 => out[i][2] \in 1 .. n
        BY <1>6, <1>10
      <3> QED
        BY <1>2, <1>3, <1>6, <1>10, <1>11, <3>1 DEF Printed
    <2>2. InOrder' /\ AllPrinted'
      BY <1>3, <1>11 DEF Serves, InOrder, AllPrinted
    <2> QED
      BY <2>1, <2>2, <1>7, <1>8, <1>9 DEF Serves
  <1>12. CASE out' = Append(out, v)
    <2>0. /\ DOMAIN out' = 1 .. (L + 1) /\ Len(out') = L + 1
          /\ \A i \in 1 .. L : out'[i] = out[i]
          /\ out'[L + 1] = v
      BY <1>5, <1>12
    <2>1. Printed'
      <3> SUFFICES ASSUME NEW i \in 1 .. (L + 1)
                   PROVE  /\ out'[i][1] = 0 => out'[i][2] \in 1 .. n
                          /\ \A c \in Peers : out'[i][1] = c => out'[i][2] \in 1 .. got[c]
        BY <1>2, <1>3, <2>0 DEF Printed
      <3>1. CASE i = L + 1
        BY <1>6, <2>0, <3>1 DEF Peers
      <3>2. CASE i \in 1 .. L
        BY <1>6, <1>10, <2>0, <3>2
      <3> QED
        BY <1>6, <3>1, <3>2
    <2>2. InOrder'
      <3> SUFFICES ASSUME NEW i \in 1 .. (L + 1), NEW j \in 1 .. (L + 1),
                          i < j, out'[i][1] = out'[j][1]
                   PROVE  /\ out'[i][2] < out'[j][2]
                          /\ out'[i][1] # 0 => \A k \in i .. j : out'[k][1] = out'[i][1]
        BY <2>0 DEF InOrder
      <3>1. i \in 1 .. L
        BY <1>6
      <3>2. CASE j \in 1 .. L
        <4>1. /\ out[i][2] < out[j][2]
              /\ out[i][1] # 0 => \A k \in i .. j : out[k][1] = out[i][1]
          BY <1>6, <2>0, <3>1, <3>2 DEF Serves, InOrder
        <4>2. \A k \in i .. j : k \in 1 .. L
          BY <1>6, <3>1, <3>2
        <4> QED
          BY <2>0, <3>1, <3>2, <4>1, <4>2
      <3>3. CASE j = L + 1
        <4>1. out[i][1] = 0 /\ out[i][2] \in 1 .. (n - 1)
          BY <1>6, <1>10, <2>0, <3>1, <3>3
        <4> QED
          BY <1>6, <2>0, <3>1, <3>3, <4>1
      <3>4. j = L + 1 \/ j \in 1 .. L
        BY <1>6
      <3> QED
        BY <3>2, <3>3, <3>4
    <2>3. AllPrinted'
      <3> SUFFICES ASSUME program \in {"sink", "echo", "reuse", "select"},
                          NEW c \in Peers, NEW k \in 1 .. got[c]
                   PROVE  \E i \in 1 .. (L + 1) : out'[i] = <<c, k>>
        BY <1>3, <2>0 DEF AllPrinted
      <3>1. PICK i \in 1 .. L : out[i] = <<c, k>>
        BY <1>6 DEF Serves, AllPrinted
      <3> QED
        BY <1>6, <2>0, <3>1
    <2> QED
      BY <2>1, <2>2, <2>3, <1>7, <1>8, <1>9 DEF Serves
  <1> QED
    BY <1>4, <1>11, <1>12

\* A server that only goes somewhere else.
LEMMA MoveKeeps ==
    ASSUME ServerTypes, Serves, NEW m \in {"ended", "failed", "accept", "select", "stdin", "sock"},
           pc'[0] = m, ~At(0, "echo"), m \in {"ended", "failed"} \/ cur = 0,
           UNCHANGED <<program, opt, conn, backlog, sent, got, back, cur, out>>,
           UNCHANGED <<lines, typed>>
    PROVE  ServerTypes' /\ Serves'
  <1>1. ~At(0, "echo")'
    BY DEF At
  <1>2. Queued' /\ Printed' /\ InOrder' /\ AllPrinted' /\ Echoed' /\ Left'
    BY <1>1, DataKept
  <1>3. ServerTypes' /\ Serving'
    BY DEF ServerTypes, Serving, At
  <1> QED
    BY <1>2, <1>3 DEF Serves

LEMMA ReadStdinKeeps ==
    ASSUME Network, ServerTypes, Serves, At(0, "stdin"), ReadStdin, UNCHANGED <<program, opt>>,
           pc = [a \in Actors |-> pc[a]]
    PROVE  ServerTypes' /\ Serves'
  <1>1. CASE /\ lines > 0 /\ Goto(0, "sock")
             /\ lines' = lines - 1 /\ out' \in Written(<<0, typed - lines + 1>>)
             /\ UNCHANGED <<cur, typed, eof, ready, socketVars>>
    BY <1>1, ReadLineKeeps
  <1>2. CASE Goto(0, "ended") /\ UNCHANGED <<serverVars, socketVars>>
    <2>1. pc'[0] = "ended" /\ ~At(0, "echo")
      BY <1>2 DEF Goto, At, Actors
    <2> QED
      BY <1>2, <2>1, MoveKeeps DEF serverVars, socketVars
  <1> QED
    BY <1>1, <1>2 DEF ReadStdin

LEMMA ListenKeeps ==
    ASSUME ServerTypes, Serves, Listen, UNCHANGED <<program, opt>>, pc = [a \in Actors |-> pc[a]]
    PROVE  ServerTypes' /\ Serves'
  <1>1. pc[0] = "start" /\ pc'[0] \in {"failed", "select", "stdin", "accept"}
    BY DEF Listen, Moves, At, Goto, Actors, Top
  <1>2. cur = 0 /\ ~At(0, "echo")
    BY <1>1 DEF Serves, Serving, At
  <1> QED
    BY <1>1, <1>2, MoveKeeps DEF Listen, serverVars, socketVars

LEMMA ServeKeeps ==
    ASSUME Network, ServerTypes, Serves, Serve, UNCHANGED <<program, opt>>,
           pc = [a \in Actors |-> pc[a]]
    PROVE  ServerTypes' /\ Serves'
  <1>1. cur # 0
    BY DEF Serve
  <1>2. CASE ReadData
    BY <1>1, <1>2, ReadDataKeeps
  <1>3. CASE ReadError
    <2>1. /\ conn[cur] = "reset" /\ Becomes(cur, "broken")
          /\ UNCHANGED <<backlog, sent, got, back, serverVars>>
      BY <1>3 DEF ReadError, SockError
    <2>2. pc'[0] \in {"read", "failed", "ended"}
      BY <1>3 DEF ReadError, Moves, Goto, Actors
    <2> QED
      BY <1>1, <2>1, <2>2, ErrorKeeps
  <1>4. CASE ReadEof
    BY <1>1, <1>4, ReadEofKeeps
  <1>5. CASE Echo
    BY <1>1, <1>5, EchoKeeps
  <1> QED
    BY <1>2, <1>3, <1>4, <1>5 DEF Serve

\* As far as the network is concerned, the server makes one call or none.
LEMMA ServeCalls ==
    ASSUME Network, ServerTypes, cur # 0, ReadData \/ ReadError \/ ReadEof \/ Echo
    PROVE  Network'
  <1>1. cur \in Peers /\ got[cur] \in Words
    BY PeerTypes DEF ServerTypes, Words
  <1> QED
    BY <1>1, CallKeepsNetwork DEF ReadData, ReadError, ReadEof, Echo, SigPipe

LEMMA ServerStepKeeps ==
    ASSUME Network, ServerTypes, Serves, ServerStep, UNCHANGED <<program, opt>>,
           pc = [a \in Actors |-> pc[a]]
    PROVE  /\ Network' /\ ServerTypes' /\ Serves' /\ pc' = [a \in Actors |-> pc'[a]]
  <1>1. CASE Listen
    <2>1. UNCHANGED socketVars /\ pc' = [a \in Actors |-> pc'[a]]
      BY <1>1 DEF Listen, Moves, Goto
    <2>2. Network'
      BY <2>1 DEF socketVars, Network, SocketTypes, Arriving, Arrived
    <2> QED
      BY <1>1, <2>1, <2>2, ListenKeeps
  <1>2. ASSUME NEW l \in {"accept", "sock"}, Accept(l)
        PROVE  /\ Network' /\ ServerTypes' /\ Serves' /\ pc' = [a \in Actors |-> pc'[a]]
    <2>1. PICK c \in Peers : Accepts(c)
      BY <1>2 DEF Accept
    <2>2. 0 \in Words
      BY DEF Words
    <2>3. Network'
      BY <2>1, <2>2, CallKeepsNetwork
    <2>4. pc' = [a \in Actors |-> pc'[a]]
      BY <1>2 DEF Accept, Moves, Goto
    <2> QED
      BY <1>2, <2>3, <2>4, AcceptKeeps
  <1>3. CASE Serve
    <2>1. cur # 0 /\ (ReadData \/ ReadError \/ ReadEof \/ Echo)
      BY <1>3 DEF Serve
    <2>2. Network'
      BY <2>1, ServeCalls
    <2>3. pc' = [a \in Actors |-> pc'[a]]
      BY <2>1 DEF ReadData, ReadError, ReadEof, Echo, SigPipe, Moves, Goto
    <2> QED
      BY <1>3, <2>2, <2>3, ServeKeeps
  <1>4. CASE At(0, "stdin") /\ ReadStdin
    <2>1. UNCHANGED socketVars /\ pc' = [a \in Actors |-> pc'[a]]
      BY <1>4 DEF ReadStdin, Goto
    <2>2. Network'
      BY <2>1 DEF socketVars, Network, SocketTypes, Arriving, Arrived
    <2> QED
      BY <1>4, <2>1, <2>2, ReadStdinKeeps
  <1>5. ASSUME NEW l \in {"select", "stdin", "sock"}, NEW m \in {"select", "stdin", "sock"},
               Moves(0, l, m), UNCHANGED <<cur, out, terminal, socketVars>>
        PROVE  /\ Network' /\ ServerTypes' /\ Serves' /\ pc' = [a \in Actors |-> pc'[a]]
    <2>1. pc'[0] = m /\ ~At(0, "echo") /\ cur = 0 /\ pc' = [a \in Actors |-> pc'[a]]
      <3>1. pc[0] = l /\ pc' = [pc EXCEPT ![0] = m]
        BY <1>5 DEF Moves, Goto, At
      <3>4. 0 \in Actors
        BY DEF Actors
      <3>5. pc' = [a \in Actors |-> pc'[a]]
        BY <3>1
      <3>2. pc'[0] = m /\ pc' = [a \in Actors |-> pc'[a]]
        BY <3>1, <3>4, <3>5
      <3>3. pc[0] # "echo" /\ cur = 0
        BY <3>1 DEF Serves, Serving
      <3> QED
        BY <3>2, <3>3 DEF At
    <2>2. Network'
      BY <1>5 DEF socketVars, Network, SocketTypes, Arriving, Arrived
    <2> QED
      BY <1>5, <2>1, <2>2, MoveKeeps DEF terminal, socketVars
  <1>6. CASE Server
    BY <1>1, <1>2, <1>3, <1>6 DEF Server
  <1>7. CASE Select
    <2>1. UNCHANGED serverVars => UNCHANGED <<cur, out, terminal>>
      BY DEF serverVars, terminal
    <2> QED
      BY <1>1, <1>2, <1>3, <1>4, <1>5, <1>7, <2>1 DEF Select
  <1>8. CASE BusyWait
    <2>1. UNCHANGED serverVars => UNCHANGED <<cur, out, terminal>>
      BY DEF serverVars, terminal
    <2> QED
      BY <1>1, <1>2, <1>3, <1>4, <1>5, <1>8, <2>1 DEF BusyWait
  <1> QED
    BY <1>6, <1>7, <1>8 DEF ServerStep

LEMMA ServerOutsideKeeps ==
    ASSUME Network, ServerTypes, Serves, ServerOutside, UNCHANGED <<program, opt>>,
           pc = [a \in Actors |-> pc[a]]
    PROVE  /\ Network' /\ ServerTypes' /\ Serves' /\ pc' = [a \in Actors |-> pc'[a]]
  <1>1. CASE \E c \in Peers : /\ Connects(c) \/ PeerStep(c)
                              /\ UNCHANGED <<pc, serverVars>>
    <2>1. PICK c \in Peers : (Connects(c) \/ PeerStep(c)) /\ UNCHANGED <<pc, serverVars>>
      BY <1>1
    <2>2. Network'
      BY <2>1, PeerKeepsNetwork
    <2> QED
      BY <2>1, <2>2, PeerKeepsServer
  <1>2. CASE TypesLine \/ TypesEof
    <2>1. UNCHANGED <<pc, cur, out, ready, socketVars>>
      BY <1>2 DEF TypesLine, TypesEof
    <2>2. (typed - lines)' = typed - lines /\ ServerTypes'
      BY <1>2, ServersAssumption DEF TypesLine, TypesEof, ServerTypes
    <2>3. Network'
      BY <2>1 DEF socketVars, Network, SocketTypes, Arriving, Arrived
    <2>4. Serving' /\ (At(0, "echo")' <=> At(0, "echo"))
      BY <2>1 DEF Serves, Serving, At
    <2>5. Queued' /\ Printed' /\ InOrder' /\ AllPrinted' /\ Echoed' /\ Left'
      BY <2>1, <2>2, <2>4, DataKept DEF socketVars
    <2> QED
      BY <2>1, <2>2, <2>3, <2>4, <2>5 DEF Serves
  <1> QED
    BY <1>1, <1>2 DEF ServerOutside

LEMMA KilledKept ==
    ASSUME ServerTypes, Serves, KilledByPeer, ServerStep \/ ServerOutside,
           UNCHANGED <<program, opt>>, pc = [a \in Actors |-> pc[a]]
    PROVE  KilledByPeer'
  <1> SUFFICES ASSUME pc'[0] = "killed"
               PROVE  program \in {"echo", "inetd"} /\ cur' # 0 /\ conn'[cur'] = "broken"
    BY DEF KilledByPeer, At
  <1>0. 0 \in Actors /\ \A l, m : Moves(0, l, m) => pc'[0] = m
    BY DEF Actors, Moves, Goto
  <1>1. ~Listen
    BY <1>0 DEF Listen, Top
  <1>2. \A l : ~Accept(l)
    BY <1>0 DEF Accept
  <1>3. ~ReadData /\ ~ReadError /\ ~ReadEof
    BY <1>0 DEF ReadData, ReadError, ReadEof, Top
  <1>4. ~ReadStdin
    BY <1>0 DEF ReadStdin, Goto
  <1>5. \A l, m \in {"stdin", "sock", "select"} : ~Moves(0, l, m)
    BY <1>0
  <1>6. ~ServerOutside
    BY DEF ServerOutside, Listens, TypesLine, TypesEof
  <1>7. cur # 0 /\ Echo
    BY <1>1, <1>2, <1>3, <1>4, <1>5, <1>6 DEF ServerStep, Server, Select, BusyWait, Serve
  <1>8. At(0, "echo") /\ SigPipe(cur) /\ UNCHANGED serverVars
    BY <1>0, <1>7 DEF Echo, Goto
  <1> QED
    BY <1>7, <1>8 DEF SigPipe, socketVars, serverVars, Serves, Serving
-----------------------------------------------------------------------------
(* The programs that copy.                                                 *)

LEMMA CopierNumbers ==
    ASSUME CopierTypes
    PROVE  /\ K \in Nat /\ left \in Nat /\ left <= K /\ (K - left) \in Nat /\ Piece \in Nat
           /\ optind \in Nat /\ Len(files) \in Nat /\ Len(copied) \in Nat
           /\ copied \in Seq(Nat \X Nat) /\ Piece = (K - left) + 1
           /\ DOMAIN copied = 1 .. Len(copied)
  <1>1. K \in Nat /\ left \in 0 .. K /\ files \in Seq(FileKinds) /\ copied \in Seq(Nat \X Nat)
    BY StreamsAssumption DEF CopierTypes
  <1>2. Len(files) \in Nat /\ Len(copied) \in Nat /\ DOMAIN copied = 1 .. Len(copied)
    BY <1>1
  <1>3. left \in Nat /\ left <= K /\ (K - left) \in Nat /\ Piece \in Nat /\ Piece = (K - left) + 1
    BY <1>1 DEF Piece
  <1>4. optind \in Nat
    BY <1>2 DEF CopierTypes
  <1> QED
    BY <1>1, <1>2, <1>3, <1>4

\* One more piece is written.
LEMMA CopyOne ==
    ASSUME CopierTypes, NEW f \in Nat, copied' = Append(copied, <<f, Piece>>)
    PROVE  /\ copied' \in Seq(Nat \X Nat)
           /\ DOMAIN copied' = 1 .. (Len(copied) + 1) /\ Len(copied') = Len(copied) + 1
           /\ \A i \in 1 .. Len(copied) : copied'[i] = copied[i]
           /\ copied'[Len(copied) + 1] = <<f, Piece>>
  <1>1. <<f, Piece>> \in Nat \X Nat /\ copied \in Seq(Nat \X Nat)
    BY CopierNumbers
  <1> QED
    BY <1>1, AppendFacts

LEMMA SimpleCatKeeps ==
    ASSUME CopierTypes, SimpleCatInv, Is("simplecat"), SimpleCat, UNCHANGED <<program, opt>>,
           pc = [a \in Actors |-> pc[a]]
    PROVE  /\ CopierTypes' /\ SimpleCatInv' /\ UNCHANGED socketVars
           /\ pc' = [a \in Actors |-> pc'[a]]
  <1>1. CASE /\ At(0, "start") /\ left > 0 /\ left' = left - 1
             /\ copied' = Append(copied, <<1, Piece>>)
             /\ UNCHANGED <<pc, files, optind, ret, badInput, socketVars>>
    <2>1. /\ copied' \in Seq(Nat \X Nat)
          /\ DOMAIN copied' = 1 .. (Len(copied) + 1) /\ Len(copied') = Len(copied) + 1
          /\ \A i \in 1 .. Len(copied) : copied'[i] = copied[i]
          /\ copied'[Len(copied) + 1] = <<1, Piece>>
      BY <1>1, CopyOne
    <2>2. /\ Len(copied) = K - left /\ \A k \in 1 .. Len(copied) : copied[k] = <<1, k>>
          /\ ~At(0, "ended")
      BY <1>1, CopierNumbers DEF SimpleCatInv, At
    <2>3. Piece = Len(copied) + 1 /\ left' \in 0 .. K /\ Len(copied) + 1 = K - left'
      BY <1>1, <2>2, CopierNumbers
    <2>4. CopierTypes'
      BY <1>1, <2>1, <2>3 DEF CopierTypes
    <2>5. ASSUME NEW k \in 1 .. (Len(copied) + 1) PROVE copied'[k] = <<1, k>>
      <3>1. k = Len(copied) + 1 \/ k \in 1 .. Len(copied)
        BY CopierNumbers
      <3> QED
        BY <2>1, <2>2, <2>3, <3>1
    <2>6. ~At(0, "ended")'
      BY <1>1, <2>2 DEF At
    <2>7. SimpleCatInv'
      BY <2>1, <2>3, <2>5, <2>6 DEF SimpleCatInv
    <2> QED
      BY <1>1, <2>4, <2>7
  <1>2. CASE left = 0 /\ Moves(0, "start", "ended") /\ UNCHANGED <<copierVars, socketVars>>
    <2>1. CopierTypes' /\ pc' = [a \in Actors |-> pc'[a]]
      BY <1>2 DEF CopierTypes, copierVars, Moves, Goto
    <2>2. SimpleCatInv'
      BY <1>2 DEF SimpleCatInv, copierVars, Is
    <2> QED
      BY <1>2, <2>1, <2>2
  <1> QED
    BY <1>1, <1>2 DEF SimpleCat, ReadsPiece, EndOfInput
-----------------------------------------------------------------------------
(* cat.c.                                                                  *)

\* Nothing has been printed of the next file.
LEMMA NothingYet ==
    ASSUME CopierTypes, CatPrinted, ~At(0, "read"), NEW i \in DOMAIN copied
    PROVE  /\ copied[i][1] \in 1 .. optind /\ copied[i][2] \in 1 .. K
           /\ copied[i][1] # optind
           /\ \A j \in DOMAIN copied : i < j => Before(copied[i], copied[j])
  BY DEF CatPrinted

\* Going on to the next file: what is said of a file that failed, and of one that
\* did not.
LEMMA NextFileKeeps ==
    ASSUME CopierTypes, CatPrinted, CatStatus, optind <= Len(files), NEW failed \in BOOLEAN,
           NextFile(failed), pc = [a \in Actors |-> pc[a]], UNCHANGED opt,
           failed => argument # "file" \/ badInput,
           NoOption /\ ~failed => argument = "file" /\ ~badInput,
           NoOption /\ argument = "file" =>
              \A k \in 1 .. K : \E i \in DOMAIN copied : copied[i] = <<optind, k>>
    PROVE  CopierTypes' /\ CatPrinted' /\ CatStatus' /\ CatReading'
  <1>1. /\ pc' = [pc EXCEPT ![0] = "start"] /\ optind' = optind + 1
        /\ ret' = IF failed THEN 1 ELSE ret
        /\ UNCHANGED <<files, left, badInput, copied>>
    BY DEF NextFile, Goto
  <1>2. pc'[0] = "start" /\ ~At(0, "read")' /\ ~At(0, "ended")'
    BY <1>1 DEF Actors, At
  <1>3. optind \in Nat /\ Len(files) \in Nat /\ ret \in {0, 1} /\ ret' \in {0, 1}
    BY <1>1, CopierNumbers DEF CopierTypes
  <1>4. optind' \in 1 .. (Len(files) + 1) /\ optind \in 1 .. (Len(files) + 1)
    BY <1>1, <1>3 DEF CopierTypes
  <1>5. CopierTypes'
    BY <1>1, <1>3, <1>4 DEF CopierTypes
  <1>6. CatReading'
    BY <1>2 DEF CatReading
  <1>7. CatPrinted'
    <2> SUFFICES ASSUME NEW i \in DOMAIN copied
                 PROVE  /\ copied[i][1] \in 1 .. (optind + 1) /\ copied[i][2] \in 1 .. K
                        /\ copied[i][1] # (optind + 1)
                        /\ \A j \in DOMAIN copied : i < j => Before(copied[i], copied[j])
      BY <1>1 DEF CatPrinted, Before
    <2>1. /\ copied[i][1] \in 1 .. optind /\ copied[i][2] \in 1 .. K
          /\ \A j \in DOMAIN copied : i < j => Before(copied[i], copied[j])
      BY DEF CatPrinted
    <2> QED
      BY <1>3, <2>1
  <1>8. CatStatus'
    <2>1. (NoOption' <=> NoOption) /\ (NoRoom' <=> NoRoom) /\ (BadSize' <=> BadSize)
      BY DEF NoOption, NoRoom, BadSize
    <2>2. NoRoom \/ BadSize => copied = <<>>
      BY DEF CatStatus
    <2>3. \A f \in 1 .. optind : f = optind \/ f \in 1 .. (optind - 1)
      BY <1>3
    <2>4. 1 .. (optind' - 1) = 1 .. optind /\ optind \in 1 .. optind
      BY <1>1, <1>3, <1>4
    <2>5. ASSUME NoOption
          PROVE  ret' = 0 <=> \A f \in 1 .. optind : files[f] = "file" /\ ~badInput
      <3>1. ret = 0 <=> \A f \in 1 .. (optind - 1) : files[f] = "file" /\ ~badInput
        BY <2>5 DEF CatStatus
      <3>2. CASE failed
        BY <1>1, <2>4, <3>2 DEF argument
      <3>3. CASE ~failed
        <4>1. ret' = ret /\ files[optind] = "file" /\ ~badInput
          BY <1>1, <2>5, <3>3 DEF argument
        <4>2. \A f \in 1 .. (optind - 1) : f \in 1 .. optind
          BY <1>3
        <4> QED
          BY <2>3, <3>1, <4>1, <4>2
      <3> QED
        BY <3>2, <3>3
    <2>6. ASSUME NoOption, NEW f \in 1 .. optind, files[f] = "file"
          PROVE  \A k \in 1 .. K : \E i \in DOMAIN copied : copied[i] = <<f, k>>
      <3>1. CASE f = optind
        BY <2>6, <3>1 DEF argument
      <3>2. CASE f \in 1 .. (optind - 1)
        BY <2>6, <3>2 DEF CatStatus
      <3> QED
        BY <2>3, <3>1, <3>2
    <2>7. (\A f \in 1 .. (optind' - 1) : files'[f] = "file" =>
             \A k \in 1 .. K : \E i \in DOMAIN copied' : copied'[i] = <<f, k>>) \/ ~NoOption
      BY <1>1, <2>4, <2>6
    <2>8. (ret' = 0 <=> \A f \in 1 .. (optind' - 1) : files'[f] = "file" /\ ~badInput') \/ ~NoOption
      BY <1>1, <2>4, <2>5
    <2>9. NoRoom' \/ BadSize' => copied' = <<>>
      BY <1>1, <2>1, <2>2
    <2> QED
      BY <2>1, <2>7, <2>8, <2>9 DEF CatStatus
  <1> QED
    BY <1>5, <1>6, <1>7, <1>8

\* One more piece of a file, which comes after all that was printed before.
LEMMA PieceKeeps ==
    ASSUME CopierTypes, CatPrinted, CatStatus, CatReading, At(0, "read"), ~NoRoom,
           left > 0, left' = left - 1, copied' = Append(copied, <<optind, Piece>>),
           UNCHANGED <<pc, files, optind, ret, badInput, opt>>
    PROVE  CopierTypes' /\ CatPrinted' /\ CatStatus' /\ CatReading'
  <1> DEFINE L == Len(copied)
  <1>1. /\ K \in Nat /\ left \in Nat /\ left <= K /\ (K - left) \in Nat /\ Piece \in Nat
        /\ Piece = (K - left) + 1 /\ optind \in Nat /\ L \in Nat /\ DOMAIN copied = 1 .. L
    BY CopierNumbers
  <1>2. /\ copied' \in Seq(Nat \X Nat)
        /\ DOMAIN copied' = 1 .. (L + 1) /\ Len(copied') = L + 1
        /\ \A i \in 1 .. L : copied'[i] = copied[i]
        /\ copied'[L + 1] = <<optind, Piece>>
    BY <1>1, CopyOne
  <1>3. left' \in 0 .. K /\ (K - left') = Piece /\ Piece \in 1 .. K
    BY <1>1
  <1>4. /\ (NoOption' <=> NoOption) /\ (NoRoom' <=> NoRoom) /\ (BadSize' <=> BadSize)
        /\ At(0, "read")' /\ (At(0, "ended")' <=> At(0, "ended"))
    BY DEF NoOption, NoRoom, BadSize, At
  <1>5. ~BadSize /\ optind <= Len(files) /\ argument' = argument /\ argument \in {"file", "dir"}
    BY DEF CatReading, argument
  <1>6. DOMAIN copied' = 1 .. (L + 1) /\ DOMAIN copied = 1 .. L
    BY <1>1, <1>2
  <1> HIDE DEF L
  <1>7. CopierTypes'
    BY <1>2, <1>3 DEF CopierTypes
  <1>8. \A j \in 1 .. (L + 1) : j = L + 1 \/ j \in 1 .. L
    BY <1>1
  <1>9. \A i \in 1 .. L : i \in 1 .. (L + 1) /\ i < L + 1
    BY <1>1
  <1>10. ASSUME NEW i \in 1 .. L
         PROVE  /\ copied[i][1] \in 1 .. optind /\ copied[i][2] \in 1 .. K
                /\ copied[i][1] = optind => copied[i][2] <= (K - left)
                /\ \A j \in 1 .. L : i < j => Before(copied[i], copied[j])
    BY <1>1 DEF CatPrinted
  <1>11. CatPrinted'
    <2>1. ASSUME NEW i \in 1 .. (L + 1)
          PROVE  /\ copied'[i][1] \in 1 .. optind /\ copied'[i][2] \in 1 .. K
                 /\ copied'[i][1] = optind => copied'[i][2] <= Piece
                 /\ \A j \in 1 .. (L + 1) : i < j => Before(copied'[i], copied'[j])
      <3>1. CASE i = L + 1
        <4>1. copied'[i][1] = optind /\ copied'[i][2] = Piece /\ optind \in 1 .. optind
          BY <1>1, <1>2, <3>1 DEF CopierTypes
        <4>2. \A j \in 1 .. (L + 1) : ~(i < j)
          BY <1>1, <3>1
        <4> QED
          BY <1>1, <1>3, <4>1, <4>2
      <3>2. CASE i \in 1 .. L
        <4>1. copied'[i] = copied[i]
          BY <1>2, <3>2
        <4>2. /\ copied[i][1] \in 1 .. optind /\ copied[i][2] \in 1 .. K
              /\ copied[i][1] = optind => copied[i][2] <= (K - left)
          BY <1>10, <3>2
        <4>3. copied[i][1] = optind => copied[i][2] <= Piece /\ copied[i][2] < Piece
          BY <1>1, <4>2
        <4>4. ASSUME NEW j \in 1 .. (L + 1), i < j
              PROVE  Before(copied'[i], copied'[j])
          <5>1. CASE j = L + 1
            <6>1. copied'[j][1] = optind /\ copied'[j][2] = Piece
              BY <1>2, <5>1
            <6> QED
              BY <1>1, <4>1, <4>2, <4>3, <6>1 DEF Before
          <5>2. CASE j \in 1 .. L
            BY <1>2, <1>10, <3>2, <4>1, <4>4, <5>2
          <5> QED
            BY <1>8, <5>1, <5>2
        <4> QED
          BY <4>1, <4>2, <4>3, <4>4
      <3> QED
        BY <1>8, <3>1, <3>2
    <2>2. /\ optind' = optind /\ (K - left') = Piece /\ At(0, "read")'
          /\ DOMAIN copied' = 1 .. (L + 1)
      BY <1>2, <1>3, <1>4
    <2>3. \A i \in DOMAIN copied' :
             /\ copied'[i][1] \in 1 .. optind' /\ copied'[i][2] \in 1 .. K
             /\ copied'[i][1] = optind' => At(0, "read")' /\ copied'[i][2] <= (K - left')
      BY <2>1, <2>2
    <2>4. \A i \in DOMAIN copied' : \A j \in DOMAIN copied' :
             i < j => Before(copied'[i], copied'[j])
      BY <2>1, <2>2
    <2> QED
      BY <2>3, <2>4 DEF CatPrinted, Before
  <1>12. ASSUME NEW f, NEW k, \E i \in DOMAIN copied : copied[i] = <<f, k>>
         PROVE  \E i \in DOMAIN copied' : copied'[i] = <<f, k>>
    <2>1. PICK i \in 1 .. L : copied[i] = <<f, k>>
      BY <1>6, <1>12
    <2> QED
      BY <1>2, <1>6, <1>9, <2>1
  <1>13. CatStatus'
    <2>1. ASSUME NoOption, NEW f \in 1 .. (optind - 1), files[f] = "file", NEW k \in 1 .. K
          PROVE  \E i \in DOMAIN copied' : copied'[i] = <<f, k>>
      <3>1. \E i \in DOMAIN copied : copied[i] = <<f, k>>
        BY <2>1 DEF CatStatus
      <3> QED
        BY <1>12, <3>1
    <2>2. NoOption => (ret = 0 <=> \A f \in 1 .. (optind - 1) : files[f] = "file" /\ ~badInput)
      BY DEF CatStatus
    <2> QED
      BY <1>4, <1>5, <2>1, <2>2 DEF CatStatus
  <1>14. CatReading'
    <2>1. ASSUME NoOption, argument = "file", NEW k \in 1 .. Piece
          PROVE  \E i \in DOMAIN copied' : copied'[i] = <<optind, k>>
      <3>1. CASE k = Piece
        <4>1. (L + 1) \in DOMAIN copied'
          BY <1>1, <1>6
        <4> QED
          BY <1>2, <3>1, <4>1
      <3>2. CASE k \in 1 .. (K - left)
        <4>1. \E i \in DOMAIN copied : copied[i] = <<optind, k>>
          BY <2>1, <3>2 DEF CatReading
        <4> QED
          BY <1>12, <4>1
      <3>3. k = Piece \/ k \in 1 .. (K - left)
        BY <1>1
      <3> QED
        BY <3>1, <3>2, <3>3
    <2>2. ~At(0, "ended")
      BY DEF At
    <2> QED
      BY <1>3, <1>4, <1>5, <2>1, <2>2 DEF CatReading
  <1> QED
    BY <1>7, <1>11, <1>13, <1>14

\* What cat.c may do, its options by their names.
LEMMA CatCases ==
    ASSUME Cat
    PROVE  \/ /\ At(0, "start") /\ UNCHANGED copierVars
              /\ Goto(0, "failed") \/ (Goto(0, "ended") /\ optind > Len(files))
           \/ At(0, "start") /\ optind <= Len(files) /\ argument = "missing" /\ NextFile(TRUE)
           \/ /\ At(0, "start") /\ optind <= Len(files) /\ ~BadSize /\ argument # "missing"
              /\ Goto(0, "read") /\ left' = K
              /\ UNCHANGED <<files, optind, ret, badInput, copied, socketVars>>
           \/ /\ At(0, "read") /\ ~NoRoom /\ left > 0
              /\ left' = left - 1 /\ copied' = Append(copied, <<optind, Piece>>)
              /\ UNCHANGED <<pc, files, optind, ret, badInput, socketVars>>
           \/ /\ At(0, "read") /\ argument = "file" /\ NextFile(FALSE)
              /\ NoRoom \/ (left = 0 /\ ~badInput)
           \/ /\ At(0, "read") /\ NextFile(TRUE)
              /\ argument = "dir" \/ (~NoRoom /\ left = 0 /\ badInput)
  BY Zenon DEF Cat, usage, do_cat, Open, Moves, NoRoom, BadSize

LEMMA CatKeepsSockets ==
    ASSUME Cat, pc = [a \in Actors |-> pc[a]]
    PROVE  UNCHANGED socketVars /\ pc' = [a \in Actors |-> pc'[a]]
  <1>1. UNCHANGED socketVars
    BY Zenon DEF Cat, usage, do_cat, Open, NextFile
  <1>2. (\E l \in {"start", "failed", "read", "ended"} : Goto(0, l)) \/ UNCHANGED pc
    BY Zenon DEF Cat, usage, do_cat, Open, NextFile, Moves
  <1> QED
    BY <1>1, <1>2 DEF Goto

LEMMA CatKeeps ==
    ASSUME CopierTypes, CatInv, Is("cat"), Cat, UNCHANGED <<program, opt>>,
           pc = [a \in Actors |-> pc[a]]
    PROVE  CopierTypes' /\ CatInv'
  <1>1. CatPrinted /\ CatStatus /\ CatReading
    BY DEF CatInv
  <1>2. SUFFICES CopierTypes' /\ CatPrinted' /\ CatStatus' /\ CatReading'
    BY DEF CatInv
  <1>3. (NoOption' <=> NoOption) /\ (NoRoom' <=> NoRoom) /\ (BadSize' <=> BadSize)
    BY DEF NoOption, NoRoom, BadSize
  <1>4. NoOption => ~NoRoom
    BY Zenon DEF NoOption, NoRoom
  <1>5. CASE /\ At(0, "start") /\ UNCHANGED copierVars
             /\ Goto(0, "failed") \/ (Goto(0, "ended") /\ optind > Len(files))
    <2>1. /\ ~At(0, "read") /\ ~At(0, "read")'
          /\ At(0, "ended")' => optind > Len(files)
      BY <1>5 DEF At, Goto, Actors
    <2>2. UNCHANGED <<files, optind, ret, left, badInput, copied>>
      BY <1>5 DEF copierVars
    <2>3. CopierTypes' /\ CatReading'
      BY <2>1, <2>2 DEF CopierTypes, CatReading
    <2>4. CatStatus'
      BY <1>1, <1>3, <2>2 DEF CatStatus
    <2>5. CatPrinted'
      BY <1>1, <2>1, <2>2, NothingYet DEF CatPrinted, Before
    <2> QED
      BY <2>3, <2>4, <2>5
  <1>6. CASE At(0, "start") /\ optind <= Len(files) /\ argument = "missing" /\ NextFile(TRUE)
    BY <1>1, <1>6, NextFileKeeps
  <1>7. CASE /\ At(0, "start") /\ optind <= Len(files) /\ ~BadSize /\ argument # "missing"
             /\ Goto(0, "read") /\ left' = K
             /\ UNCHANGED <<files, optind, ret, badInput, copied, socketVars>>
    <2>1. /\ ~At(0, "read") /\ At(0, "read")' /\ ~At(0, "ended")'
          /\ K \in Nat /\ (K - left') = 0 /\ optind \in Nat /\ Len(files) \in Nat
      BY <1>7, CopierNumbers DEF At, Goto, Actors
    <2>2. argument \in FileKinds /\ argument' = argument
      BY <1>7, <2>1 DEF CopierTypes, argument
    <2>3. CopierTypes'
      BY <1>7, <2>1 DEF CopierTypes
    <2>4. CatReading'
      BY <1>3, <1>7, <2>1, <2>2 DEF CatReading, FileKinds
    <2>5. CatStatus'
      BY <1>1, <1>3, <1>7 DEF CatStatus
    <2>6. CatPrinted'
      BY <1>1, <1>7, <2>1, NothingYet DEF CatPrinted, Before
    <2> QED
      BY <2>3, <2>4, <2>5, <2>6
  <1>8. CASE /\ At(0, "read") /\ ~NoRoom /\ left > 0
             /\ left' = left - 1 /\ copied' = Append(copied, <<optind, Piece>>)
             /\ UNCHANGED <<pc, files, optind, ret, badInput, socketVars>>
    BY <1>1, <1>8, PieceKeeps
  <1>9. CASE At(0, "read") /\ argument = "file" /\ NextFile(FALSE)
             /\ (NoRoom \/ (left = 0 /\ ~badInput))
    <2>1. optind <= Len(files)
      BY <1>1, <1>9 DEF CatReading
    <2>2. NoOption => /\ left = 0 /\ ~badInput
                      /\ \A k \in 1 .. (K - left) : \E i \in DOMAIN copied : copied[i] = <<optind, k>>
      BY <1>1, <1>4, <1>9 DEF CatReading
    <2>3. left = 0 => (K - left) = K
      BY CopierNumbers
    <2> QED
      BY <1>1, <1>9, <2>1, <2>2, <2>3, NextFileKeeps
  <1>10. CASE /\ At(0, "read") /\ NextFile(TRUE)
              /\ argument = "dir" \/ (~NoRoom /\ left = 0 /\ badInput)
    <2>1. optind <= Len(files)
      BY <1>1, <1>10 DEF CatReading
    <2>2. NoOption /\ argument = "file" =>
             /\ left = 0
             /\ \A k \in 1 .. (K - left) : \E i \in DOMAIN copied : copied[i] = <<optind, k>>
      BY <1>1, <1>10 DEF CatReading
    <2>3. left = 0 => (K - left) = K
      BY CopierNumbers
    <2> QED
      BY <1>1, <1>10, <2>1, <2>2, <2>3, NextFileKeeps
  <1> QED
    BY <1>5, <1>6, <1>7, <1>8, <1>9, <1>10, CatCases
-----------------------------------------------------------------------------
(* connect.c and linger.c.                                                 *)

\* What is known of their connection.
LEMMA SenderNumbers ==
    ASSUME Network, CopierTypes
    PROVE  /\ 1 \in Peers /\ 0 \in Actors /\ back[1] \in Seq(Words) /\ Len(back[1]) \in Nat
           /\ DOMAIN back[1] = 1 .. Len(back[1])
           /\ K \in Nat /\ left \in Nat /\ left <= K /\ (K - left) \in Nat
           /\ DOMAIN conn = Peers /\ DOMAIN back = Peers
  <1>1. 1 \in Peers /\ 0 \in Actors
    BY DEF Peers, Actors
  <1>2. back[1] \in Seq(Words) /\ Len(back[1]) \in Nat
    BY <1>1, PeerTypes
  <1>3. DOMAIN back[1] = 1 .. Len(back[1])
    BY <1>2
  <1>4. DOMAIN conn = Peers /\ DOMAIN back = Peers
    BY DEF Network, SocketTypes
  <1> QED
    BY <1>1, <1>2, <1>3, <1>4, CopierNumbers

\* A step after which the peer has what he had.
LEMMA SameSent ==
    ASSUME Network, CopierTypes, Sending, UNCHANGED <<opt, left>>, back'[1] = back[1],
           pc'[0] # "start", pc'[0] # "write",
           conn'[1] # "new" \/ pc'[0] \in {"ended", "failed", "killed"},
           conn'[1] \in {"open", "fin"} =>
              /\ pc'[0] \in {"read", "refused"} => Len(back[1]) = K - left
              /\ pc'[0] = "ended" => Len(back[1]) = K
    PROVE  Sending'
  <1>2. ~At(0, "start")' /\ ~At(0, "write")' /\ (At(0, "ended")' <=> pc'[0] = "ended")
    BY DEF At
  <1> QED
    BY <1>2 DEF Sending

LEMMA ConnectKeeps ==
    ASSUME Network, CopierTypes, Sending, Connect, UNCHANGED <<program, opt>>,
           pc = [a \in Actors |-> pc[a]]
    PROVE  Network' /\ Sending'
  <1>1. /\ conn[1] = "new" /\ left = K /\ left' = left /\ Arrived(1) /\ Len(back[1]) = 0
    BY SenderNumbers, NewIsUnread, PeerTypes DEF Connect, Sending, copierVars
  <1>2. CASE /\ Goto(0, "read") /\ Becomes(1, "open")
             /\ UNCHANGED <<backlog, sent, rx, got, back, unread>>
    <2>1. /\ pc'[0] = "read" /\ conn' = [conn EXCEPT ![1] = "open"] /\ conn'[1] = "open"
          /\ \A d \in Peers : d # 1 => conn'[d] = conn[d]
      BY <1>2, SenderNumbers DEF Goto, Becomes
    <2>2. SocketTypes'
      BY <1>2, <2>1 DEF Network, SocketTypes, States
    <2>3. Arrived(1)'
      BY <1>1, <1>2, <2>1 DEF Arrived
    <2>4. ASSUME NEW d \in Peers, d # 1 PROVE Arrived(d)'
      BY <1>2, <2>1, <2>4, OthersArrived
    <2>5. Network'
      BY <2>2, <2>3, <2>4 DEF Network, Arriving
    <2>6. (K - left) = 0 /\ back'[1] = back[1]
      BY <1>1, <1>2, SenderNumbers
    <2> QED
      BY <1>1, <2>1, <2>5, <2>6, SameSent
  <1>3. CASE Goto(0, "failed") /\ UNCHANGED socketVars
    <2>1. pc'[0] = "failed" /\ back'[1] = back[1]
      BY <1>3, SenderNumbers DEF Goto, socketVars
    <2>2. Network'
      BY <1>3 DEF socketVars, Network, SocketTypes, Arriving, Arrived
    <2> QED
      BY <1>1, <2>1, <2>2, SameSent
  <1> QED
    BY <1>2, <1>3 DEF Connect

LEMMA WriteRemoteKeeps ==
    ASSUME Network, CopierTypes, Sending, NEW l \in {"read", "ended"}, WriteRemote(l),
           UNCHANGED <<program, opt>>, pc = [a \in Actors |-> pc[a]]
    PROVE  Network' /\ Sending'
  <1>1. /\ conn[1] # "new" /\ left < K /\ left' = left /\ pc[0] = "write"
        /\ Len(back[1]) <= (K - left)
        /\ conn[1] \in {"open", "fin"} => Len(back[1]) = K - left - 1
    BY DEF WriteRemote, Sending, copierVars, At
  <1>2. (Piece - 1) \in Words /\ (Piece - 1) = K - left /\ (K - left) \in Nat
    <2>1. (Piece - 1) = K - left /\ (K - left) \in Nat
      BY CopierNumbers
    <2>2. (K - left) \in Words
      BY <2>1 DEF Words
    <2> QED
      BY <2>1, <2>2
  <1>3. Network'
    BY <1>2, SenderNumbers, CallKeepsNetwork DEF WriteRemote, SigPipe
  <1>4. CASE /\ conn[1] \in {"open", "fin"} /\ UNCHANGED conn /\ Goto(0, "read")
             /\ back' = [back EXCEPT ![1] = Append(@, Piece - 1)]
    <2>1. back'[1] = Append(back[1], Piece - 1)
      BY <1>4, SenderNumbers
    <2>2. /\ Len(Append(back[1], Piece - 1)) = Len(back[1]) + 1
          /\ DOMAIN Append(back[1], Piece - 1) = 1 .. (Len(back[1]) + 1)
          /\ \A i \in 1 .. Len(back[1]) : Append(back[1], Piece - 1)[i] = back[1][i]
          /\ Append(back[1], Piece - 1)[Len(back[1]) + 1] = Piece - 1
      BY <1>2, SenderNumbers, AppendFacts
    <2>3. Len(back'[1]) = K - left /\ DOMAIN back'[1] = 1 .. (K - left)
      BY <1>1, <1>2, <1>4, <2>1, <2>2, SenderNumbers
    <2>4. \A k \in 1 .. (K - left) : back'[1][k] = k
      <3> SUFFICES ASSUME NEW k \in 1 .. (K - left) PROVE Append(back[1], Piece - 1)[k] = k
        BY <2>1
      <3>1. Len(back[1]) + 1 = K - left
        BY <1>1, <1>4, SenderNumbers
      <3>2. \A i \in 1 .. Len(back[1]) : back[1][i] = i
        BY SenderNumbers DEF Sending
      <3>3. k = Len(back[1]) + 1 \/ k \in 1 .. Len(back[1])
        BY <3>1, SenderNumbers
      <3> QED
        BY <1>2, <2>2, <3>1, <3>2, <3>3
    <2>5. /\ pc'[0] = "read" /\ ~At(0, "start")' /\ ~At(0, "write")' /\ ~At(0, "ended")'
          /\ conn'[1] # "new"
      BY <1>1, <1>4, SenderNumbers DEF Goto, At
    <2>6. (K - left)' = (K - left)
      BY <1>1
    <2>7. Sending'
      BY <1>2, <2>3, <2>4, <2>5, <2>6 DEF Sending
    <2> QED
      BY <1>3, <2>7
  <1>5. CASE /\ conn'[1] \notin {"open", "fin", "new"} /\ back' = back
             /\ pc'[0] \in {"read", "ended", "killed"}
    <2>1. Sending'
      BY <1>1, <1>5, SameSent
    <2> QED
      BY <1>3, <2>1
  <1>6. CASE SockWrites(1, Piece - 1) /\ Goto(0, "read")
    <2>1. CASE conn[1] \in {"closed", "poked"} /\ Becomes(1, "poked") /\ back' = back
      <3>1. conn'[1] = "poked" /\ pc'[0] = "read"
        BY <1>6, <2>1, SenderNumbers DEF Becomes, Goto
      <3> QED
        BY <1>5, <2>1, <3>1
    <2>2. CASE /\ conn[1] \in {"open", "fin"} /\ UNCHANGED conn
               /\ back' = [back EXCEPT ![1] = Append(@, Piece - 1)]
      BY <1>4, <1>6, <2>2
    <2> QED
      BY <1>6, <2>1, <2>2 DEF SockWrites
  <1>7. CASE SockWriteError(1) /\ Goto(0, l)
    <2>1. conn'[1] = "broken" /\ pc'[0] = l /\ back' = back
      BY <1>7, SenderNumbers DEF SockWriteError, Becomes, Goto
    <2> QED
      BY <1>5, <2>1
  <1>8. CASE SigPipe(1)
    <2>1. conn'[1] = "broken" /\ pc'[0] = "killed" /\ back' = back
      BY <1>8, SenderNumbers DEF SigPipe, socketVars, Goto
    <2> QED
      BY <1>5, <2>1
  <1> QED
    BY <1>6, <1>7, <1>8 DEF WriteRemote

\* A connection that was reset at the end: what the peer has is a prefix.
LEMMA AbortKeepsSender ==
    ASSUME Network, CopierTypes, Sending, conn[1] # "new", Aborts(1), left' = left,
           pc'[0] = "ended"
    PROVE  Network' /\ Sending'
  <1>1. /\ Network' /\ conn'[1] = "broken" /\ Len(back'[1]) <= Len(back[1])
        /\ DOMAIN back'[1] \subseteq DOMAIN back[1]
        /\ \A k \in DOMAIN back'[1] : back'[1][k] = back[1][k]
    BY SenderNumbers, AbortKeeps
  <1>2. Len(back'[1]) \in Nat
    BY <1>1, SenderNumbers, PeerTypes
  <1>3. Len(back'[1]) <= (K - left)
    BY <1>1, <1>2, SenderNumbers DEF Sending
  <1>4. \A k \in DOMAIN back'[1] : back'[1][k] = k
    BY <1>1 DEF Sending
  <1>5. ~At(0, "start")' /\ ~At(0, "write")'
    BY DEF At
  <1> QED
    BY <1>1, <1>3, <1>4, <1>5 DEF Sending

\* close() loses nothing, unless it resets the connection.
LEMMA CloseKeeps ==
    ASSUME Network, CopierTypes, Sending, EndOfInput, Moves(0, "read", "ended"), CloseRemote,
           UNCHANGED <<program, opt>>, pc = [a \in Actors |-> pc[a]]
    PROVE  Network' /\ Sending'
  <1>1. /\ left' = left /\ left = 0 /\ conn[1] # "new"
        /\ pc[0] = "read" /\ pc'[0] = "ended"
        /\ conn[1] \in {"open", "fin"} => Len(back[1]) = K - left
    BY SenderNumbers DEF CloseRemote, copierVars, EndOfInput, Moves, At, Goto, Sending
  <1>2. CASE Aborts(1)
    BY <1>1, <1>2, AbortKeepsSender
  <1>3. CASE UNCHANGED socketVars
    <2>1. Network'
      BY <1>3 DEF socketVars, Network, SocketTypes, Arriving, Arrived
    <2>2. (K - left) = K
      BY <1>1, SenderNumbers
    <2>3. back' = back /\ conn' = conn
      BY <1>3 DEF socketVars
    <2>4. Sending'
      BY <1>1, <2>2, <2>3, SameSent
    <2> QED
      BY <2>1, <2>4
  <1> QED
    BY <1>2, <1>3 DEF CloseRemote

\* A step that writes nothing.
LEMMA SenderMoves ==
    ASSUME Network, CopierTypes, Sending, UNCHANGED <<socketVars, opt, left>>,
           NEW l \in {"read", "refused"}, NEW m \in {"read", "refused", "ended"}, Moves(0, l, m),
           m = "ended" => left = 0, pc = [a \in Actors |-> pc[a]]
    PROVE  Sending'
  <1>1. pc[0] = l /\ pc'[0] = m
    BY SenderNumbers DEF Moves, At, Goto
  <1>2. back' = back /\ conn' = conn
    BY DEF socketVars
  <1>3. conn[1] # "new" /\ (conn[1] \in {"open", "fin"} => Len(back[1]) = K - left)
    BY <1>1 DEF Sending
  <1>4. left = 0 => (K - left) = K
    BY SenderNumbers
  <1> QED
    BY <1>1, <1>2, <1>3, <1>4, SameSent

LEMMA ReadInputKeeps ==
    ASSUME Network, CopierTypes, Sending, ReadInput, UNCHANGED <<program, opt>>,
           pc = [a \in Actors |-> pc[a]]
    PROVE  CopierTypes' /\ Sending'
  <1>1. /\ pc[0] = "read" /\ pc'[0] = "write" /\ left > 0 /\ left' = left - 1
        /\ UNCHANGED <<files, optind, ret, badInput, copied, conn, back>>
    BY SenderNumbers DEF ReadInput, ReadsPiece, Moves, At, Goto, socketVars
  <1>2. left' \in 0 .. K /\ left' < K /\ (K - left') = (K - left) + 1 /\ (K - left) \in Nat
    BY <1>1, SenderNumbers
  <1>3. CopierTypes'
    BY <1>1, <1>2 DEF CopierTypes
  <1>4. ~At(0, "start")' /\ At(0, "write")' /\ ~At(0, "ended")'
    BY <1>1 DEF At
  <1>5. /\ Len(back[1]) <= (K - left) /\ \A k \in DOMAIN back[1] : back[1][k] = k
        /\ conn[1] # "new" /\ (conn[1] \in {"open", "fin"} => Len(back[1]) = K - left)
    BY <1>1 DEF Sending
  <1>6. Len(back[1]) <= (K - left')
    BY <1>2, <1>5, SenderNumbers
  <1>7. conn[1] \in {"open", "fin"} => Len(back[1]) = K - left' - 1
    BY <1>1, <1>2, <1>5, SenderNumbers
  <1> QED
    BY <1>1, <1>2, <1>3, <1>4, <1>5, <1>6, <1>7 DEF Sending

LEMMA SenderKeeps ==
    ASSUME Network, CopierTypes, Sending, ConnectMain \/ LingerMain, UNCHANGED <<program, opt>>,
           pc = [a \in Actors |-> pc[a]]
    PROVE  Network' /\ CopierTypes' /\ Sending' /\ pc' = [a \in Actors |-> pc'[a]]
  <1>1. UNCHANGED copierVars => CopierTypes'
    BY DEF copierVars, CopierTypes
  <1>2. UNCHANGED socketVars => Network'
    BY DEF socketVars, Network, SocketTypes, Arriving, Arrived
  <1>3. CASE Connect
    <2>1. UNCHANGED copierVars /\ pc' = [a \in Actors |-> pc'[a]]
      BY <1>3 DEF Connect, Goto
    <2> QED
      BY <1>1, <1>3, <2>1, ConnectKeeps
  <1>4. CASE ReadInput
    <2>1. UNCHANGED socketVars /\ pc' = [a \in Actors |-> pc'[a]]
      BY <1>4 DEF ReadInput, Moves, Goto
    <2> QED
      BY <1>2, <1>4, <2>1, ReadInputKeeps
  <1>5. ASSUME NEW l \in {"read", "ended"}, WriteRemote(l)
        PROVE  Network' /\ CopierTypes' /\ Sending' /\ pc' = [a \in Actors |-> pc'[a]]
    <2>1. UNCHANGED copierVars /\ pc' = [a \in Actors |-> pc'[a]]
      BY <1>5 DEF WriteRemote, SigPipe, Goto
    <2> QED
      BY <1>1, <1>5, <2>1, WriteRemoteKeeps
  <1>6. ASSUME NEW l \in {"read", "refused"}, NEW m \in {"read", "refused", "ended"},
               Moves(0, l, m), UNCHANGED <<copierVars, socketVars>>, m = "ended" => left = 0
        PROVE  Network' /\ CopierTypes' /\ Sending' /\ pc' = [a \in Actors |-> pc'[a]]
    <2>1. UNCHANGED copierVars /\ UNCHANGED socketVars /\ left' = left /\ pc' = [a \in Actors |-> pc'[a]]
      BY <1>6 DEF Moves, Goto, copierVars
    <2> QED
      BY <1>1, <1>2, <1>6, <2>1, SenderMoves
  <1>7. CASE EndOfInput /\ Moves(0, "read", "ended") /\ CloseRemote
    <2>1. UNCHANGED copierVars /\ pc' = [a \in Actors |-> pc'[a]]
      BY <1>7 DEF CloseRemote, Moves, Goto
    <2> QED
      BY <1>1, <1>7, <2>1, CloseKeeps
  <1> QED
    BY <1>3, <1>4, <1>5, <1>6, <1>7 DEF ConnectMain, LingerMain

\* linger.c ends at the end of its input only.
LEMMA LingerEndsKept ==
    ASSUME LingerEnds, CopierStep \/ UNCHANGED <<pc, badInput>>, UNCHANGED program,
           pc = [a \in Actors |-> pc[a]]
    PROVE  LingerEnds'
  <1> SUFFICES ASSUME Is("linger"), pc'[0] = "ended" PROVE ~badInput'
    BY DEF LingerEnds, Is, At
  <1>0. 0 \in Actors /\ \A l, m : Moves(0, l, m) => pc'[0] = m
    BY DEF Actors, Moves, Goto
  <1>1. CASE UNCHANGED <<pc, badInput>>
    BY <1>1 DEF LingerEnds, At
  <1>2. CASE LingerMain
    <2>1. ~Connect /\ ~ReadInput /\ ~WriteRemote("read")
      BY <1>0 DEF Connect, ReadInput, WriteRemote, SigPipe, Goto
    <2>2. ~badInput /\ UNCHANGED copierVars
      BY <1>0, <1>2, <2>1 DEF LingerMain, CloseRemote
    <2> QED
      BY <2>2 DEF copierVars
  <1> QED
    BY <1>1, <1>2 DEF CopierStep, Is

\* The peer, too, may send, close, reset the connection or read.
LEMMA PeerKeepsSender ==
    ASSUME Network, CopierTypes, Sending,
           Sends(1) \/ Closes(1) \/ Resets(1) \/ Takes(1) \/ RstArrives(1),
           UNCHANGED <<opt, pc, left>>
    PROVE  Sending'
  <1>1. /\ back' = back /\ conn[1] # "new" /\ conn'[1] # "new"
        /\ conn'[1] \in {"open", "fin"} => conn[1] \in {"open", "fin"}
    BY SenderNumbers DEF Sends, Closes, Resets, Takes, RstArrives, Becomes
  <1>3. \A l \in {"start", "write", "ended"} : At(0, l)' <=> At(0, l)
    BY DEF At
  <1> QED
    BY <1>1, <1>3 DEF Sending
-----------------------------------------------------------------------------
(* Pipes: whatever is done to a pipe, what is in it was written and not    *)
(* read.                                                                   *)

LEMMA PipeCalls ==
    ASSUME PipeTypes, pc = [a \in Actors |-> pc[a]],
           NEW a, NEW l, NEW m, NEW r \in SUBSET Actors, NEW w \in SUBSET Actors,
           \/ (Moves(a, l, m) \/ UNCHANGED pc) /\ (Ends(r, w) \/ UNCHANGED pipeVars)
           \/ ReadsData(a, l, m) \/ ReadsEof(a, l, m) \/ Writes(a, l, m)
    PROVE  PipeTypes' /\ pc' = [b \in Actors |-> pc'[b]]
  <1>1. pc' = [b \in Actors |-> pc'[b]]
    BY DEF Moves, Goto, ReadsData, ReadsEof, Writes
  <1>2. CASE Ends(r, w)
    BY <1>1, <1>2 DEF Ends, PipeTypes
  <1>3. CASE UNCHANGED pipeVars \/ ReadsEof(a, l, m)
    BY <1>1, <1>3 DEF pipeVars, ReadsEof, PipeTypes
  <1>4. CASE ReadsData(a, l, m)
    BY <1>1, <1>4 DEF ReadsData, PipeTypes
  <1>5. CASE Writes(a, l, m)
    <2>1. CASE /\ reads' = reads \ {a} /\ writes' = writes \ {a}
               /\ UNCHANGED <<inPipe, made, taken>>
      BY <1>1, <2>1 DEF PipeTypes
    <2>2. CASE /\ inPipe' = inPipe + 1 /\ made' = made + 1
               /\ UNCHANGED <<reads, writes, taken>>
      BY <1>1, <2>2 DEF PipeTypes
    <2> QED
      BY <1>5, <2>1, <2>2 DEF Writes
  <1> QED
    BY <1>2, <1>3, <1>4, <1>5

LEMMA CountdownKeeps ==
    ASSUME PipeTypes, pc = [a \in Actors |-> pc[a]],
           NEW c \in {1, 2}, CountdownForks(c)
    PROVE  PipeTypes' /\ pc' = [b \in Actors |-> pc'[b]]
  <1>1. PICK born \in BOOLEAN :
           /\ pc' = [pc EXCEPT ![0] = IF c = 1 THEN "fork2" ELSE "close",
                               ![c] = IF born THEN "close0" ELSE "unborn"]
           /\ Ends({0} \cup reads \cup (IF born THEN {c} ELSE {}),
                   {0} \cup writes \cup (IF born THEN {c} ELSE {}))
    BY DEF CountdownForks
  <1>2. reads' \subseteq Actors /\ writes' \subseteq Actors /\ UNCHANGED <<inPipe, made, taken>>
    BY <1>1 DEF Ends, PipeTypes, Actors
  <1>3. PipeTypes'
    BY <1>2 DEF PipeTypes
  <1>4. pc' = [b \in Actors |-> pc'[b]]
    BY <1>1
  <1> QED
    BY <1>3, <1>4

LEMMA PipeKeeps ==
    ASSUME PipeTypes, pc = [a \in Actors |-> pc[a]],
           (\E a \in Actors : PipeStep(a)) \/ PipeOutside
    PROVE  PipeTypes' /\ pc' = [b \in Actors |-> pc'[b]] /\ program \in PipePrograms
  <1>1. program \in PipePrograms
    BY DEF PipeStep, PipeOutside, Less, FifoWriter, Is, PipePrograms
  <1>2. \A r, a : /\ (r \ {a}) \subseteq r
                     /\ {0} \subseteq Actors /\ {1} \subseteq Actors /\ {0, 1} \subseteq Actors
                     /\ {} \subseteq Actors
    BY DEF Actors
  <1>3. /\ reads \in SUBSET Actors /\ writes \in SUBSET Actors
        /\ \A a : (reads \ {a}) \in SUBSET Actors /\ (writes \ {a}) \in SUBSET Actors
        /\ {0} \in SUBSET Actors /\ {1} \in SUBSET Actors /\ {0, 1} \in SUBSET Actors
        /\ {} \in SUBSET Actors
    BY <1>2 DEF PipeTypes
  <1>4. CASE DeadlockInRead \/ SelfDeadlock \/ BrokenPipe
    <2>1. CASE DeadlockInRead
      BY <1>1, <1>3, <2>1, PipeCalls DEF DeadlockInRead
    <2>2. CASE SelfDeadlock
      BY <1>1, <1>3, <2>2, PipeCalls DEF SelfDeadlock
    <2>3. CASE BrokenPipe
      BY <1>1, <1>3, <2>3, PipeCalls DEF BrokenPipe
    <2> QED
      BY <1>1, <1>4, <2>1, <2>2, <2>3
  <1>5. CASE Countdown
    BY <1>1, <1>3, <1>5, PipeCalls, CountdownKeeps DEF Countdown
  <1>6. ASSUME NEW a, CountdownChild(a) PROVE PipeTypes' /\ pc' = [b \in Actors |-> pc'[b]]
    BY <1>3, <1>6, PipeCalls DEF CountdownChild
  <1>7. CASE PipeAndFork
    <2>1. CASE /\ pc' = [pc EXCEPT ![0] = "close", ![1] = "close"]
               /\ Ends({0, 1}, {0, 1})
      BY <1>1, <1>3, <2>1 DEF Ends, PipeTypes
    <2>2. CASE Goto(0, "failed") /\ UNCHANGED pipeVars
      BY <1>1, <2>2 DEF Goto, pipeVars, PipeTypes
    <2>3. CASE Moves(0, "close", "less") /\ Ends(reads, writes \ {0})
      BY <1>1, <1>3, <2>3, PipeCalls
    <2> QED
      BY <1>7, <2>1, <2>2, <2>3 DEF PipeAndFork
  <1>8. CASE PipeAndForkChild
    BY <1>1, <1>3, <1>8, PipeCalls DEF PipeAndForkChild
  <1>9. CASE OpenSleepRead
    BY <1>1, <1>3, <1>9, PipeCalls DEF OpenSleepRead
  <1>10. CASE Less
    BY <1>1, <1>3, <1>10, PipeCalls DEF Less
  <1>11. CASE FifoWriter
    BY <1>1, <1>3, <1>11, PipeCalls DEF FifoWriter
  <1> QED
    BY <1>1, <1>4, <1>5, <1>6, <1>7, <1>8, <1>9, <1>10, <1>11 DEF PipeStep, PipeOutside
-----------------------------------------------------------------------------
(* The pairs.                                                              *)

LEMMA SocketsKept ==
    ASSUME Network, UNCHANGED socketVars
    PROVE  Network'
  BY DEF socketVars, Network, SocketTypes, Arriving, Arrived

LEMMA ExchangeNumbers ==
    ASSUME Network, ExchangeTypes
    PROVE  /\ 1 \in Peers /\ 0 \in Actors /\ 1 \in Actors /\ K \in Nat
           /\ back[1] \in Seq(Words) /\ total \in Nat /\ unread[1] \in Nat /\ unread[1] <= total
           /\ DOMAIN back[1] = 1 .. total /\ DOMAIN unread = Peers /\ DOMAIN back = Peers
           /\ DOMAIN heard = {0, 1} /\ Len(grams) \in Nat /\ DOMAIN grams = 1 .. Len(grams)
  <1>1. 1 \in Peers /\ 0 \in Actors /\ 1 \in Actors
    BY DEF Peers, Actors
  <1>2. back[1] \in Seq(Words) /\ Len(back[1]) \in Nat
    BY <1>1, PeerTypes
  <1>3. DOMAIN back[1] = 1 .. Len(back[1])
    BY <1>2
  <1>4. DOMAIN unread = Peers /\ DOMAIN back = Peers
    BY DEF Network, SocketTypes
  <1>5. unread[1] \in Nat /\ unread[1] <= Len(back[1]) /\ K \in Nat
    BY <1>1, PeerTypes DEF Arrived
  <1>6. DOMAIN heard = {0, 1} /\ grams \in Seq({"short", "long"})
    BY DEF ExchangeTypes
  <1>7. Len(grams) \in Nat /\ DOMAIN grams = 1 .. Len(grams)
    BY <1>6
  <1> QED
    BY <1>1, <1>2, <1>3, <1>4, <1>5, <1>6, <1>7 DEF total

\* A step after which the reader has what he had.
LEMMA SameNumbers ==
    ASSUME Numbered, UNCHANGED <<heard, back, unread>>
    PROVE  Numbered'
  BY DEF Numbered, total

LEMMA SilentTypes ==
    ASSUME ExchangeTypes, UNCHANGED <<heard, grams, net, stranger>>
    PROVE  ExchangeTypes'
  BY DEF ExchangeTypes

LEMMA WriteSelectKeeps ==
    ASSUME Network, ExchangeTypes, Numbered, WriteSelect, UNCHANGED <<program, opt>>,
           pc = [a \in Actors |-> pc[a]]
    PROVE  Network' /\ ExchangeTypes' /\ Numbered' /\ pc' = [b \in Actors |-> pc'[b]]
  <1>0. UNCHANGED <<heard, grams, net, stranger>>
    BY DEF WriteSelect, Silent, exchangeVars
  <1>1. ExchangeTypes' /\ pc' = [b \in Actors |-> pc'[b]]
    BY <1>0, SilentTypes DEF WriteSelect, Moves, Goto, SigPipe
  <1>2. (total + 1) \in Words /\ (total + 1) \in Nat
    BY ExchangeNumbers DEF Words
  <1>3. CASE UNCHANGED socketVars
    <2>1. UNCHANGED <<back, unread>>
      BY <1>3 DEF socketVars
    <2> QED
      BY <1>0, <1>1, <1>3, <2>1, SocketsKept, SameNumbers
  <1>4. CASE Accepts(1)
    <2>1. UNCHANGED <<back, unread>>
      BY <1>4 DEF Accepts
    <2>2. Network'
      BY <1>2, <1>4, ExchangeNumbers, CallKeepsNetwork
    <2> QED
      BY <1>0, <1>1, <2>1, <2>2, SameNumbers
  <1>5. CASE SockWrites(1, total + 1)
    <2>1. Network'
      BY <1>2, <1>5, ExchangeNumbers, CallKeepsNetwork
    <2>2. CASE UNCHANGED <<back, unread>>
      BY <1>0, <1>1, <2>1, <2>2, SameNumbers
    <2>3. CASE /\ back' = [back EXCEPT ![1] = Append(@, total + 1)]
               /\ unread' = [unread EXCEPT ![1] = @ + 1]
      <3>1. back'[1] = Append(back[1], total + 1) /\ unread'[1] = unread[1] + 1
        BY <2>3, ExchangeNumbers
      <3>2. /\ Len(Append(back[1], total + 1)) = total + 1
            /\ DOMAIN Append(back[1], total + 1) = 1 .. (total + 1)
            /\ \A k \in 1 .. total : Append(back[1], total + 1)[k] = back[1][k]
            /\ Append(back[1], total + 1)[total + 1] = total + 1
        BY <1>2, ExchangeNumbers, AppendFacts DEF total
      <3>3. Len(back'[1]) = total + 1 /\ DOMAIN back'[1] = 1 .. (total + 1)
        BY <3>1, <3>2
      <3>4. ASSUME NEW k \in 1 .. (total + 1) PROVE back'[1][k] = k
        <4>1. k = total + 1 \/ k \in 1 .. total
          BY ExchangeNumbers
        <4>2. \A i \in 1 .. total : back[1][i] = i
          BY ExchangeNumbers DEF Numbered
        <4> QED
          BY <3>1, <3>2, <4>1, <4>2
      <3>5. total' = total + 1 /\ (total' - unread'[1]) = (total - unread[1])
        BY <3>1, <3>3, ExchangeNumbers DEF total
      <3>6. Numbered'
        BY <1>0, <3>3, <3>4, <3>5 DEF Numbered
      <3> QED
        BY <1>1, <2>1, <3>6
    <2> QED
      BY <1>5, <2>2, <2>3 DEF SockWrites
  <1>6. CASE SockWriteError(1) \/ SigPipe(1)
    <2>1. UNCHANGED <<back, unread>>
      BY <1>6 DEF SockWriteError, SigPipe, socketVars
    <2>2. Network'
      BY <1>2, <1>6, ExchangeNumbers, CallKeepsNetwork DEF SigPipe
    <2> QED
      BY <1>0, <1>1, <2>1, <2>2, SameNumbers
  <1> QED
    BY <1>3, <1>4, <1>5, <1>6 DEF WriteSelect

LEMMA ConnectOnlyKeeps ==
    ASSUME Network, ExchangeTypes, Numbered, ConnectOnly, UNCHANGED <<program, opt>>,
           pc = [a \in Actors |-> pc[a]]
    PROVE  Network' /\ ExchangeTypes' /\ Numbered' /\ pc' = [b \in Actors |-> pc'[b]]
  <1>1. pc' = [b \in Actors |-> pc'[b]]
    BY DEF ConnectOnly, Moves, Goto
  <1>2. CASE (Connects(1) \/ UNCHANGED socketVars) /\ Silent
    <2>1. UNCHANGED <<back, unread, heard, grams, net, stranger>>
      BY <1>2 DEF Connects, socketVars, Silent, exchangeVars
    <2>2. Network'
      BY <1>2, ExchangeNumbers, PeerKeepsNetwork, SocketsKept
    <2> QED
      BY <1>1, <2>1, <2>2, SameNumbers, SilentTypes
  <1>3. CASE Takes(1) /\ Prints(1, back[1][total - unread[1] + 1])
    <2> DEFINE n == total - unread[1] + 1
               h == heard[1]
    <2>1. Network'
      BY <1>3, ExchangeNumbers, PeerKeepsNetwork DEF PeerStep
    <2>2. /\ unread[1] > 0 /\ unread' = [unread EXCEPT ![1] = @ - 1] /\ back' = back
          /\ unread'[1] = unread[1] - 1
      BY <1>3, ExchangeNumbers DEF Takes
    <2>3. n \in 1 .. total /\ n \in Nat /\ (n - 1) = total - unread[1] /\ (total - unread'[1]) = n
      BY <2>2, ExchangeNumbers
    <2>4. back[1][n] = n
      BY <2>3, ExchangeNumbers DEF Numbered
    <2>5. /\ heard' = [heard EXCEPT ![1] = Append(@, back[1][n])]
          /\ UNCHANGED <<grams, net, stranger>>
      BY <1>3 DEF Prints
    <2>6. heard'[1] = Append(h, n)
      BY <2>4, <2>5, ExchangeNumbers
    <2>7. h \in Seq(Nat) /\ Len(h) = n - 1 /\ \A k \in DOMAIN h : h[k] = k
      BY <2>3 DEF Numbered
    <2>8. ExchangeTypes'
      BY <2>5 DEF ExchangeTypes
    <2> HIDE DEF n, h
    <2>9. /\ Append(h, n) \in Seq(Nat) /\ Len(Append(h, n)) = Len(h) + 1
          /\ DOMAIN Append(h, n) = 1 .. (Len(h) + 1) /\ DOMAIN h = 1 .. Len(h)
          /\ \A i \in 1 .. Len(h) : Append(h, n)[i] = h[i]
          /\ Append(h, n)[Len(h) + 1] = n
      BY <2>3, <2>7, AppendFacts
    <2>10. Len(h) + 1 = n
      BY <2>3, <2>7
    <2>11. heard'[1] \in Seq(Nat) /\ Len(heard'[1]) = n /\ DOMAIN heard'[1] = 1 .. n
      BY <2>6, <2>9, <2>10
    <2>12. ASSUME NEW k \in 1 .. n PROVE heard'[1][k] = k
      <3>1. k = n \/ k \in 1 .. Len(h)
        BY <2>3, <2>7
      <3> QED
        BY <2>6, <2>7, <2>9, <2>10, <3>1
    <2>13. total' = total
      BY <2>2 DEF total
    <2>14. Numbered'
      BY <2>2, <2>3, <2>11, <2>12, <2>13 DEF Numbered
    <2> QED
      BY <1>1, <2>1, <2>8, <2>14
  <1> QED
    BY <1>2, <1>3 DEF ConnectOnly

LEMMA InterruptedKeeps ==
    ASSUME Network, ExchangeTypes, Numbered, NEW a \in {0, 1}, Interrupted(a),
           UNCHANGED <<program, opt>>, pc = [b \in Actors |-> pc[b]]
    PROVE  Network' /\ ExchangeTypes' /\ Numbered' /\ pc' = [b \in Actors |-> pc'[b]]
  <1>1. /\ UNCHANGED <<backlog, sent, rx, got, back, unread>>
        /\ UNCHANGED <<heard, grams, net, stranger>>
        /\ pc' = [b \in Actors |-> pc'[b]]
    BY DEF Interrupted, Silent, exchangeVars, Goto
  <1>2. CASE UNCHANGED conn
    <2>1. UNCHANGED socketVars
      BY <1>1, <1>2 DEF socketVars
    <2> QED
      BY <1>1, <2>1, SocketsKept, SameNumbers, SilentTypes
  <1>3. CASE conn[1] = "open" /\ Becomes(1, IF unread[1] = 0 THEN "closed" ELSE "reset")
    <2>1. PeerStep(1)
      BY <1>1, <1>3 DEF PeerStep, Closes, Resets
    <2> QED
      BY <1>1, <2>1, ExchangeNumbers, PeerKeepsNetwork, SameNumbers, SilentTypes
  <1> QED
    BY <1>2, <1>3 DEF Interrupted

\* A step that changes nothing but where the programs and the packets are.
LEMMA UdpMoves ==
    ASSUME ExchangeTypes, Datagrams, UNCHANGED <<heard, grams>>,
           net' \subseteq net \/ (net' = net \cup {0} /\ stranger'), stranger' \in BOOLEAN,
           stranger => stranger', At(0, "ended")' => At(0, "ended") \/ 0 \in net
    PROVE  ExchangeTypes' /\ Datagrams'
  <1>1. Len(grams) \in Nat /\ net \subseteq 0 .. Len(grams)
    BY DEF ExchangeTypes
  <1>2. net' \subseteq 0 .. Len(grams)
    <2>1. 0 \in 0 .. Len(grams)
      BY <1>1
    <2>2. \A k \in net' : k \in net \/ k = 0
      OBVIOUS
    <2> QED
      BY <1>1, <2>1, <2>2
  <1>3. ExchangeTypes'
    BY <1>2 DEF ExchangeTypes
  <1>4. 0 \in net' \/ At(0, "ended")' => stranger'
    BY DEF Datagrams
  <1> QED
    BY <1>3, <1>4 DEF Datagrams

LEMMA UdpClientKeeps ==
    ASSUME Network, ExchangeTypes, Datagrams, UdpClient, UNCHANGED <<program, opt>>,
           pc = [a \in Actors |-> pc[a]]
    PROVE  ExchangeTypes' /\ Datagrams' /\ UNCHANGED socketVars /\ pc' = [b \in Actors |-> pc'[b]]
  <1>1. UNCHANGED socketVars /\ pc' = [b \in Actors |-> pc'[b]]
    BY DEF UdpClient, Moves, Goto
  <1>2. pc'[0] = pc[0]
    <2>1. pc' = pc \/ \E l \in {"read", "failed", "ended"} : pc' = [pc EXCEPT ![1] = l]
      BY DEF UdpClient, Moves, Goto
    <2> QED
      BY <2>1, ExchangeNumbers
  <1>3. CASE Silent
    <2>1. UNCHANGED <<heard, grams, net, stranger>> /\ stranger \in BOOLEAN
      BY <1>3 DEF Silent, exchangeVars, ExchangeTypes
    <2> QED
      BY <1>1, <1>2, <2>1, UdpMoves DEF At
  <1>4. CASE /\ Len(grams) < K
             /\ \E size \in {"short", "long"} : grams' = Append(grams, size)
             /\ net' = net \cup {Len(grams) + 1}
             /\ UNCHANGED <<pc, heard, stranger>>
    <2>1. PICK size \in {"short", "long"} : grams' = Append(grams, size)
      BY <1>4
    <2>2. /\ grams' \in Seq({"short", "long"}) /\ Len(grams') = Len(grams) + 1
          /\ DOMAIN grams' = 1 .. (Len(grams) + 1) /\ DOMAIN grams = 1 .. Len(grams)
          /\ \A i \in 1 .. Len(grams) : grams'[i] = grams[i]
      BY <2>1, AppendFacts DEF ExchangeTypes
    <2>3. Len(grams) \in Nat /\ K \in Nat /\ net \subseteq 0 .. Len(grams)
      BY ExchangeNumbers DEF ExchangeTypes
    <2>4. Len(grams') <= K /\ net' \subseteq 0 .. Len(grams')
      BY <1>4, <2>2, <2>3
    <2>5. ExchangeTypes'
      BY <1>4, <2>2, <2>4 DEF ExchangeTypes
    <2>6. 0 \in net' => 0 \in net
      BY <1>4, <2>3
    <2>7. \A i \in 1 .. Len(grams) : i \in 1 .. (Len(grams) + 1)
      BY <2>3
    <2>8. ASSUME NEW i \in DOMAIN heard[0]
          PROVE  /\ heard[0][i][1] \in DOMAIN grams'
                 /\ (heard[0][i][2] = "head") = (grams'[heard[0][i][1]] = "long")
      <3>1. /\ heard[0][i][1] \in DOMAIN grams
            /\ (heard[0][i][2] = "head") = (grams[heard[0][i][1]] = "long")
        BY DEF Datagrams
      <3> QED
        BY <2>2, <2>7, <3>1
    <2>9. Datagrams'
      BY <1>4, <2>6, <2>8 DEF Datagrams, At
    <2> QED
      BY <1>1, <2>5, <2>9
  <1> QED
    BY <1>3, <1>4 DEF UdpClient

LEMMA UdpServerKeeps ==
    ASSUME Network, ExchangeTypes, Datagrams, UdpServer, UNCHANGED <<program, opt>>,
           pc = [a \in Actors |-> pc[a]]
    PROVE  ExchangeTypes' /\ Datagrams' /\ UNCHANGED socketVars /\ pc' = [b \in Actors |-> pc'[b]]
  <1>1. UNCHANGED socketVars /\ pc' = [b \in Actors |-> pc'[b]]
    BY DEF UdpServer, Moves, Goto
  <1>2. CASE (Moves(0, "start", "recv") \/ (At(0, "recv") /\ 0 \in net /\ Goto(0, "ended"))) /\ Silent
    <2>1. UNCHANGED <<heard, grams, net, stranger>> /\ stranger \in BOOLEAN
      BY <1>2 DEF Silent, exchangeVars, ExchangeTypes
    <2>2. At(0, "ended")' => 0 \in net
      BY <1>2, ExchangeNumbers DEF Moves, Goto, At
    <2> QED
      BY <1>1, <2>1, <2>2, UdpMoves
  <1>3. ASSUME NEW k \in net \ {0},
               heard' = [heard EXCEPT ![0] =
                            Append(@, <<k, IF grams[k] = "long" THEN "head" ELSE "short">>)],
               net' = net \ {k} \/ net' = net, UNCHANGED <<pc, grams, stranger>>
        PROVE  ExchangeTypes' /\ Datagrams'
    <2> DEFINE size == IF grams[k] = "long" THEN "head" ELSE "short"
               v == <<k, size>>
               h == heard[0]
    <2>1. Len(grams) \in Nat /\ net \subseteq 0 .. Len(grams) /\ DOMAIN grams = 1 .. Len(grams)
      BY ExchangeNumbers DEF ExchangeTypes
    <2>2. k \in Nat /\ k \in 1 .. Len(grams)
      BY <2>1
    <2>3. /\ size \in {"head", "short"} /\ v[1] = k /\ v[2] = size
          /\ (size = "head") = (grams[k] = "long")
      OBVIOUS
    <2>4. v \in Nat \X {"head", "short"} /\ h \in Seq(Nat \X {"head", "short"})
      BY <2>2, <2>3 DEF Datagrams
    <2>5. heard'[0] = Append(h, v) /\ heard' = [a \in {0, 1} |-> heard'[a]]
      BY <1>3, ExchangeNumbers
    <2> HIDE DEF v, h, size
    <2>6. /\ Append(h, v) \in Seq(Nat \X {"head", "short"}) /\ Len(h) \in Nat
          /\ DOMAIN Append(h, v) = 1 .. (Len(h) + 1) /\ DOMAIN h = 1 .. Len(h)
          /\ \A i \in 1 .. Len(h) : Append(h, v)[i] = h[i]
          /\ Append(h, v)[Len(h) + 1] = v
      BY <2>4, AppendFacts
    <2>7. ExchangeTypes'
      BY <1>3, <2>5 DEF ExchangeTypes
    <2>8. ASSUME NEW i \in 1 .. (Len(h) + 1)
          PROVE  /\ Append(h, v)[i][1] \in DOMAIN grams
                 /\ (Append(h, v)[i][2] = "head") = (grams[Append(h, v)[i][1]] = "long")
      <3>1. CASE i = Len(h) + 1
        BY <2>1, <2>2, <2>3, <2>6, <3>1
      <3>2. CASE i \in 1 .. Len(h)
        <4>1. /\ h[i][1] \in DOMAIN grams
              /\ (h[i][2] = "head") = (grams[h[i][1]] = "long")
          BY <2>6, <3>2 DEF Datagrams, h
        <4> QED
          BY <2>6, <3>2, <4>1
      <3> QED
        BY <2>6, <3>1, <3>2
    <2>9. 0 \in net' \/ At(0, "ended")' => stranger'
      BY <1>3 DEF Datagrams, At
    <2>10. Datagrams'
      BY <1>3, <2>5, <2>6, <2>8, <2>9 DEF Datagrams
    <2> QED
      BY <2>7, <2>10
  <1> QED
    BY <1>1, <1>2, <1>3 DEF UdpServer

LEMMA UdpOutsideKeeps ==
    ASSUME ExchangeTypes, Datagrams, (\E k \in net : Loses(k)) \/ Stranger,
           UNCHANGED <<program, opt>>
    PROVE  ExchangeTypes' /\ Datagrams' /\ UNCHANGED <<pc, socketVars>>
  <1>1. UNCHANGED <<pc, heard, grams, socketVars>> /\ stranger \in BOOLEAN
    BY DEF Loses, Stranger, ExchangeTypes
  <1>2. At(0, "ended")' <=> At(0, "ended")
    BY <1>1 DEF At
  <1>3. CASE \E k \in net : Loses(k)
    <2>1. net' \subseteq net /\ stranger' = stranger
      BY <1>3 DEF Loses
    <2> QED
      BY <1>1, <1>2, <2>1, UdpMoves
  <1>4. CASE Stranger
    <2>1. net' = net \cup {0} /\ stranger' = TRUE
      BY <1>4 DEF Stranger
    <2> QED
      BY <1>1, <1>2, <2>1, UdpMoves
  <1> QED
    BY <1>3, <1>4

LEMMA AppendToNone ==
    ASSUME NEW v
    PROVE  Append(<<>>, v) = <<v>>
  OBVIOUS

LEMMA PrintsOne ==
    ASSUME ExchangeTypes, NEW a \in {0, 1}, NEW v, Prints(a, v), heard[a] = <<>>
    PROVE  /\ heard'[a] = <<v>> /\ (\A b \in {0, 1} : b # a => heard'[b] = heard[b])
           /\ ExchangeTypes'
  <1>1. heard' = [heard EXCEPT ![a] = Append(heard[a], v)] /\ UNCHANGED <<grams, net, stranger>>
    BY DEF Prints
  <1>2. heard' = [heard EXCEPT ![a] = <<v>>]
    BY <1>1, AppendToNone
  <1>3. DOMAIN heard = {0, 1}
    BY DEF ExchangeTypes
  <1>4. heard'[a] = <<v>> /\ \A b \in {0, 1} : b # a => heard'[b] = heard[b]
    BY <1>2, <1>3
  <1>5. heard' = [b \in {0, 1} |-> heard'[b]]
    BY <1>2, <1>3
  <1>6. ExchangeTypes'
    BY <1>1, <1>5 DEF ExchangeTypes
  <1> QED
    BY <1>4, <1>6

\* What the two processes of unix-socket may do, with names for what they say.
LEMMA UnixServerCases ==
    ASSUME UnixServer
    PROVE  \/ /\ At(0, "start") /\ UNCHANGED socketVars /\ Silent
              /\ \E born \in BOOLEAN :
                    pc' = [pc EXCEPT ![0] = "socket", ![1] = IF born THEN "socket" ELSE "unborn"]
           \/ \E l \in {"accept", "failed"} : Moves(0, "socket", l) /\ UNCHANGED socketVars /\ Silent
           \/ Accepts(1) /\ Moves(0, "accept", "read") /\ Silent
           \/ SockReads(1) /\ Moves(0, "read", "write") /\ Prints(0, Hello)
           \/ At(0, "write") /\ SockWrites(1, GetOut) /\ Goto(0, "ended") /\ Silent
  BY Zenon DEF UnixServer, Hello, GetOut

LEMMA UnixClientCases ==
    ASSUME UnixClient
    PROVE  \/ /\ Silent /\ (Connects(1) \/ Sends(1) \/ UNCHANGED socketVars)
              /\ \E l \in {"socket", "connect", "write"} : \E m \in {"connect", "failed", "write", "read"} :
                    Moves(1, l, m)
           \/ Takes(1) /\ Moves(1, "read", "ended") /\ Prints(1, GetOut)
           \/ \E v : /\ UNCHANGED socketVars /\ Moves(1, "read", "ended") /\ Prints(1, v)
                     /\ v # GetOut
  <1>1. "garbage" # GetOut
    BY Zenon DEF GetOut
  <1> QED
    BY Zenon, <1>1 DEF UnixClient, GetOut

LEMMA UnixServerKeeps ==
    ASSUME Network, ExchangeTypes, Meeting, UnixServer, UNCHANGED <<program, opt>>,
           pc = [a \in Actors |-> pc[a]]
    PROVE  Network' /\ ExchangeTypes' /\ Meeting' /\ pc' = [b \in Actors |-> pc'[b]]
  <1>0. pc' = [b \in Actors |-> pc'[b]] /\ GetOut \in Words
    BY DEF UnixServer, Moves, Goto, Words
  <1>1. Silent => UNCHANGED <<heard, grams, net, stranger>> /\ ExchangeTypes'
    BY DEF Silent, exchangeVars, ExchangeTypes
  <1>2. CASE /\ At(0, "start") /\ UNCHANGED socketVars /\ Silent
             /\ \E born \in BOOLEAN :
                   pc' = [pc EXCEPT ![0] = "socket", ![1] = IF born THEN "socket" ELSE "unborn"]
    <2>1. pc[0] = "start" /\ pc'[0] = "socket" /\ pc'[1] # "ended" /\ pc[1] = "unborn"
      BY <1>2, ExchangeNumbers DEF At, Meeting
    <2>2. unread' = unread
      BY <1>2 DEF socketVars
    <2>3. Meeting'
      BY <1>1, <1>2, <2>1, <2>2 DEF Meeting, At
    <2> QED
      BY <1>0, <1>1, <1>2, <2>3, SocketsKept
  <1>3. CASE \E l \in {"accept", "failed"} : Moves(0, "socket", l) /\ UNCHANGED socketVars /\ Silent
    <2>1. pc[0] = "socket" /\ pc'[0] \in {"accept", "failed"} /\ pc'[1] = pc[1]
      BY <1>3, ExchangeNumbers DEF Moves, At, Goto
    <2>2. unread' = unread
      BY <1>3 DEF socketVars
    <2>3. Meeting'
      BY <1>1, <1>3, <2>1, <2>2 DEF Meeting, At
    <2> QED
      BY <1>0, <1>1, <1>3, <2>3, SocketsKept
  <1>4. CASE Accepts(1) /\ Moves(0, "accept", "read") /\ Silent
    <2>1. pc[0] = "accept" /\ pc'[0] = "read" /\ pc'[1] = pc[1]
      BY <1>4, ExchangeNumbers DEF Moves, At, Goto
    <2>2. unread' = unread
      BY <1>4 DEF Accepts
    <2>3. Meeting'
      BY <1>1, <1>4, <2>1, <2>2 DEF Meeting, At
    <2>4. Network'
      BY <1>0, <1>4, ExchangeNumbers, CallKeepsNetwork
    <2> QED
      BY <1>0, <1>1, <1>4, <2>3, <2>4
  <1>5. CASE SockReads(1) /\ Moves(0, "read", "write") /\ Prints(0, Hello)
    <2>1. pc[0] = "read" /\ pc'[0] = "write" /\ pc'[1] = pc[1]
      BY <1>5, ExchangeNumbers DEF Moves, At, Goto
    <2>2. heard[0] = <<>> /\ Prints(0, Hello)
      BY <1>5, <2>1 DEF Meeting
    <2>3. heard'[0] = <<Hello>> /\ ExchangeTypes'
      BY <2>2, PrintsOne
    <2>4. heard'[1] = heard[1]
      BY <2>2, PrintsOne
    <2>5. Meeting'
      BY <2>1, <2>3, <2>4 DEF Meeting, At
    <2>6. Network'
      BY <1>0, <1>5, ExchangeNumbers, CallKeepsNetwork
    <2> QED
      BY <1>0, <2>3, <2>5, <2>6
  <1>6. CASE At(0, "write") /\ SockWrites(1, GetOut) /\ Goto(0, "ended") /\ Silent
    <2>1. pc[0] = "write" /\ pc'[0] = "ended" /\ pc'[1] = pc[1]
      BY <1>6, ExchangeNumbers DEF At, Goto
    <2>2. Meeting'
      BY <1>1, <1>6, <2>1 DEF Meeting, At
    <2>3. Network'
      BY <1>0, <1>6, ExchangeNumbers, CallKeepsNetwork
    <2> QED
      BY <1>0, <1>1, <1>6, <2>2, <2>3
  <1> QED
    BY <1>2, <1>3, <1>4, <1>5, <1>6, UnixServerCases

LEMMA UnixClientKeeps ==
    ASSUME Network, ExchangeTypes, Meeting, UnixClient, UNCHANGED <<program, opt>>,
           pc = [a \in Actors |-> pc[a]]
    PROVE  Network' /\ ExchangeTypes' /\ Meeting' /\ pc' = [b \in Actors |-> pc'[b]]
  <1>1. CASE /\ Silent /\ (Connects(1) \/ Sends(1) \/ UNCHANGED socketVars)
             /\ \E l \in {"socket", "connect", "write"} : \E m \in {"connect", "failed", "write", "read"} :
                   Moves(1, l, m)
    <2>1. PICK l \in {"socket", "connect", "write"}, m \in {"connect", "failed", "write", "read"} :
             Moves(1, l, m)
      BY <1>1
    <2>2. pc[1] = l /\ pc' = [pc EXCEPT ![1] = m]
      BY <2>1 DEF Moves, At, Goto
    <2>3. pc' = [b \in Actors |-> pc'[b]]
      BY <2>2
    <2>4. pc'[1] = m /\ pc'[0] = pc[0] /\ pc[1] # "ended" /\ pc[1] # "unborn" /\ pc'[1] # "ended"
      BY <2>2, <2>3, ExchangeNumbers
    <2>5. /\ unread' = unread /\ Network'
          /\ UNCHANGED <<heard, grams, net, stranger>> /\ ExchangeTypes'
      <3>1. UNCHANGED <<heard, grams, net, stranger>>
        BY <1>1 DEF Silent, exchangeVars
      <3>2. unread' = unread
        BY <1>1 DEF Connects, Sends, socketVars
      <3>3. Network'
        BY <1>1, ExchangeNumbers, PeerKeepsNetwork, SocketsKept DEF PeerStep
      <3> QED
        BY <3>1, <3>2, <3>3, SilentTypes
    <2>6. Meeting'
      BY <2>4, <2>5 DEF Meeting, At
    <2> QED
      BY <2>3, <2>5, <2>6
  <1>2. ASSUME NEW v, Moves(1, "read", "ended"), Prints(1, v)
        PROVE  /\ pc[1] = "read" /\ pc'[1] = "ended" /\ pc'[0] = pc[0]
               /\ pc' = [b \in Actors |-> pc'[b]]
               /\ heard'[1] = <<v>> /\ heard'[0] = heard[0] /\ ExchangeTypes'
    <2>1. pc[1] = "read" /\ pc' = [pc EXCEPT ![1] = "ended"]
      BY <1>2 DEF Moves, At, Goto
    <2>2. heard[1] = <<>>
      BY <2>1 DEF Meeting, At
    <2>3. heard'[1] = <<v>> /\ ExchangeTypes'
      BY <1>2, <2>2, PrintsOne
    <2>4. heard'[0] = heard[0]
      BY <1>2, <2>2, PrintsOne
    <2> QED
      BY <2>1, <2>3, <2>4, ExchangeNumbers
  <1>3. CASE Takes(1) /\ Moves(1, "read", "ended") /\ Prints(1, GetOut)
    <2>1. unread[1] > 0 /\ Network'
      BY <1>3, ExchangeNumbers, PeerKeepsNetwork DEF PeerStep, Takes
    <2>2. pc[0] \in {"write", "ended"} /\ heard[0] = <<Hello>>
      BY <2>1 DEF Meeting
    <2>3. Meeting'
      BY <1>2, <1>3, <2>2 DEF Meeting, At
    <2> QED
      BY <1>2, <1>3, <2>1, <2>3
  <1>4. CASE \E v : /\ UNCHANGED socketVars /\ Moves(1, "read", "ended") /\ Prints(1, v)
                    /\ v # GetOut
    <2>1. PICK v : /\ UNCHANGED socketVars /\ Moves(1, "read", "ended") /\ Prints(1, v)
                   /\ v # GetOut
      BY <1>4
    <2>2. <<v>> # <<GetOut>> /\ unread' = unread
      BY <2>1 DEF socketVars
    <2>3. /\ pc[1] = "read" /\ pc'[1] = "ended" /\ pc'[0] = pc[0]
          /\ heard'[1] = <<v>> /\ heard'[0] = heard[0]
      BY <1>2, <2>1
    <2>4. pc[0] # "start"
      BY <2>3 DEF Meeting, At
    <2>5. Meeting'
      BY <2>2, <2>3, <2>4 DEF Meeting, At
    <2> QED
      BY <1>2, <2>1, <2>5, SocketsKept
  <1> QED
    BY <1>1, <1>3, <1>4, UnixClientCases
-----------------------------------------------------------------------------
(* All of them.                                                            *)

\* One program runs, and what is said of the others is not about it.
LEMMA OneFamily ==
    ASSUME UNCHANGED program
    PROVE  /\ program \notin ServerPrograms => ServerInv'
           /\ ~Is("simplecat") => SimpleCatInv'
           /\ ~Is("cat") => CatInv'
           /\ program \notin {"connect", "linger"} => SenderInv'
           /\ ~Is("writeselect") => WriteSelectInv'
           /\ ~Is("udp") => UdpInv'
           /\ ~Is("unix") => UnixInv'
  BY DEF Is, ServerInv, SimpleCatInv, CatInv, SenderInv, WriteSelectInv, UdpInv, UnixInv

LEMMA NotThePipes ==
    ASSUME program \in PipePrograms
    PROVE  /\ program \notin ServerPrograms /\ program \notin {"connect", "linger"}
           /\ ~Is("simplecat") /\ ~Is("cat") /\ ~Is("writeselect") /\ ~Is("udp") /\ ~Is("unix")
  BY DEF PipePrograms, ServerPrograms, Is

LEMMA NotTheServers ==
    ASSUME program \in ServerPrograms
    PROVE  /\ program \notin {"connect", "linger"}
           /\ ~Is("simplecat") /\ ~Is("cat") /\ ~Is("writeselect") /\ ~Is("udp") /\ ~Is("unix")
  BY DEF ServerPrograms, Is

LEMMA NotTheOthers ==
    /\ Is("simplecat") \/ Is("cat") \/ Is("connect") \/ Is("linger") \/ Is("writeselect")
       \/ Is("udp") \/ Is("unix") => program \notin ServerPrograms
    /\ Is("simplecat") \/ Is("cat") \/ Is("writeselect") \/ Is("udp") \/ Is("unix") =>
          program \notin {"connect", "linger"}
    /\ Is("connect") \/ Is("linger") => program \in {"connect", "linger"}
  BY DEF ServerPrograms, Is

LEMMA FramePipes ==
    ASSUME PipeTypes, UNCHANGED pipeVars
    PROVE  PipeTypes'
  BY DEF pipeVars, PipeTypes

LEMMA FrameServers ==
    ASSUME ServerTypes, UNCHANGED serverVars
    PROVE  ServerTypes'
  BY DEF serverVars, ServerTypes

LEMMA FrameCopiers ==
    ASSUME CopierTypes, UNCHANGED copierVars
    PROVE  CopierTypes'
  BY DEF copierVars, CopierTypes

LEMMA FrameExchanges ==
    ASSUME ExchangeTypes, UNCHANGED exchangeVars
    PROVE  ExchangeTypes'
  BY SilentTypes DEF exchangeVars

\* Whoever neither moves nor uses the network does not notice.
LEMMA FrameCopying ==
    ASSUME UNCHANGED <<program, opt, pc, copierVars>>, SimpleCatInv, CatInv
    PROVE  SimpleCatInv' /\ CatInv'
  <1>1. UNCHANGED <<files, optind, ret, left, badInput, copied>>
    BY DEF copierVars
  <1>2. (NoOption' <=> NoOption) /\ (NoRoom' <=> NoRoom) /\ (BadSize' <=> BadSize)
    BY DEF NoOption, NoRoom, BadSize
  <1>3. \A l \in {"read", "ended"} : At(0, l)' <=> At(0, l)
    BY DEF At
  <1>4. (Is("simplecat")' <=> Is("simplecat")) /\ (Is("cat")' <=> Is("cat")) /\ argument' = argument
    BY <1>1 DEF Is, argument
  <1>5. SimpleCatInv'
    BY <1>1, <1>3, <1>4 DEF SimpleCatInv
  <1>6. CatPrinted => CatPrinted'
    BY <1>1, <1>3 DEF CatPrinted, Before
  <1>7. CatStatus => CatStatus'
    BY <1>1, <1>2 DEF CatStatus
  <1>8. CatReading => CatReading'
    BY <1>1, <1>2, <1>3, <1>4 DEF CatReading
  <1>9. CatInv'
    BY <1>4, <1>6, <1>7, <1>8 DEF CatInv
  <1> QED
    BY <1>5, <1>9

LEMMA FramePairs ==
    ASSUME UNCHANGED <<program, opt, pc, exchangeVars, back, unread>>,
           WriteSelectInv, UdpInv, UnixInv
    PROVE  WriteSelectInv' /\ UdpInv' /\ UnixInv'
  <1>1. UNCHANGED <<heard, grams, net, stranger>>
    BY DEF exchangeVars
  <1>2. WriteSelectInv'
    BY <1>1, SameNumbers DEF WriteSelectInv, Is
  <1>3. UdpInv'
    BY <1>1 DEF UdpInv, Datagrams, Is, At
  <1>4. UnixInv'
    BY <1>1 DEF UnixInv, Meeting, Is, At
  <1> QED
    BY <1>2, <1>3, <1>4

\* A reset that arrives.
LEMMA ArrivalKeeps ==
    ASSUME IInv, Arrival
    PROVE  IInv'
  <1>1. PICK c \in Peers : RstArrives(c)
    BY DEF Arrival
  <1>2. UNCHANGED <<program, opt, given, pc, pipeVars, serverVars, copierVars, exchangeVars>>
    BY DEF Arrival, commandLine
  <1>3. Network' /\ UNCHANGED <<back, unread>>
    BY <1>1, PeerKeepsNetwork DEF IInv, RstArrives
  <1>4. PipeTypes' /\ ServerTypes' /\ CopierTypes' /\ ExchangeTypes'
    BY <1>2, FramePipes, FrameServers, FrameCopiers, FrameExchanges DEF IInv
  <1>5. ServerInv'
    <2>1. CASE program \in ServerPrograms
      <3>1. Serves'
        BY <1>1, <1>2, <2>1, PeerKeepsServer DEF IInv, ServerInv
      <3>2. KilledByPeer'
        <4>1. \A d \in Peers : conn[d] = "broken" => conn'[d] = "broken"
          BY <1>1 DEF RstArrives, Becomes, IInv, Network, SocketTypes
        <4>2. cur' = cur /\ cur \in {0} \cup Peers
          BY <1>2 DEF serverVars, IInv, ServerTypes
        <4> QED
          BY <1>2, <2>1, <4>1, <4>2 DEF IInv, ServerInv, KilledByPeer, At
      <3> QED
        BY <3>1, <3>2 DEF ServerInv
    <2>2. CASE program \notin ServerPrograms
      BY <1>2, <2>2, OneFamily
    <2> QED
      BY <2>1, <2>2
  <1>6. SimpleCatInv' /\ CatInv'
    BY <1>2, FrameCopying DEF IInv
  <1>7. SenderInv'
    <2>0. ASSUME program \in {"connect", "linger"} PROVE LingerEnds'
      <3>1. badInput' = badInput
        BY <1>2 DEF copierVars
      <3> QED
        BY <1>2, <2>0, <3>1 DEF IInv, SenderInv, LingerEnds, Is, At
    <2>1. CASE program \in {"connect", "linger"} /\ c = 1
      <3>1. left' = left
        BY <1>2 DEF copierVars
      <3> QED
        BY <1>1, <1>2, <2>0, <2>1, <3>1, PeerKeepsSender DEF IInv, SenderInv
    <2>2. CASE program \in {"connect", "linger"} /\ c # 1
      <3>1. conn'[1] = conn[1] /\ back' = back
        BY <1>1, <2>2 DEF RstArrives, Becomes, IInv, Network, SocketTypes, Peers
      <3>2. left' = left
        BY <1>2 DEF copierVars
      <3>3. \A l \in {"start", "write", "ended"} : At(0, l)' <=> At(0, l)
        BY <1>2 DEF At
      <3>4. Sending'
        BY <1>2, <2>2, <3>1, <3>2, <3>3 DEF IInv, SenderInv, Sending
      <3> QED
        BY <1>2, <2>0, <2>2, <3>4 DEF SenderInv
    <2>3. CASE program \notin {"connect", "linger"}
      BY <1>2, <2>3, OneFamily
    <2> QED
      BY <2>1, <2>2, <2>3
  <1>8. WriteSelectInv' /\ UdpInv' /\ UnixInv'
    BY <1>2, <1>3, FramePairs DEF IInv
  <1>9. /\ <<program, opt>>' \in CommandLines /\ (pc = [a \in Actors |-> pc[a]])'
        /\ (given \in 0 .. (K + 1))'
    BY <1>2 DEF IInv
  <1> QED
    BY <1>3, <1>4, <1>5, <1>6, <1>7, <1>8, <1>9 DEF IInv

\* A step of one of the programs, or of somebody outside, family by family.
LEMMA PipesKeep ==
    ASSUME IInv, (\E a \in Actors : PipeStep(a)) \/ PipeOutside, InPipes,
           UNCHANGED <<commandLine, given>>
    PROVE  IInv'
  <1>1. UNCHANGED <<program, opt>> /\ UNCHANGED <<socketVars, serverVars, copierVars, exchangeVars>>
    BY DEF InPipes, commandLine
  <1>2. PipeTypes' /\ pc' = [b \in Actors |-> pc'[b]] /\ program \in PipePrograms
    BY PipeKeeps DEF IInv
  <1>3. Network' /\ ServerTypes' /\ CopierTypes' /\ ExchangeTypes'
    BY <1>1, SocketsKept, FrameServers, FrameCopiers, FrameExchanges DEF IInv
  <1>4. /\ ServerInv' /\ SimpleCatInv' /\ CatInv' /\ SenderInv'
        /\ WriteSelectInv' /\ UdpInv' /\ UnixInv'
    BY <1>1, <1>2, NotThePipes, OneFamily
  <1>5. <<program, opt>>' \in CommandLines
    BY <1>1 DEF IInv
  <1> QED
    BY <1>2, <1>3, <1>4, <1>5 DEF IInv

LEMMA ServersKeep ==
    ASSUME IInv, ServerStep \/ ServerOutside, InServers, UNCHANGED <<commandLine, given>>
    PROVE  IInv'
  <1>1. UNCHANGED <<program, opt>> /\ UNCHANGED <<pipeVars, copierVars, exchangeVars>>
    BY DEF InServers, commandLine
  <1>2. program \in ServerPrograms
    BY DEF ServerStep, ServerOutside, Is, ServerPrograms
  <1>3. /\ Network' /\ ServerTypes' /\ Serves' /\ KilledByPeer'
        /\ pc' = [b \in Actors |-> pc'[b]]
    BY <1>1, <1>2, ServerStepKeeps, ServerOutsideKeeps, KilledKept DEF IInv, ServerInv
  <1>4. PipeTypes' /\ CopierTypes' /\ ExchangeTypes'
    BY <1>1, FramePipes, FrameCopiers, FrameExchanges DEF IInv
  <1>5. SimpleCatInv' /\ CatInv' /\ SenderInv' /\ WriteSelectInv' /\ UdpInv' /\ UnixInv'
    BY <1>1, <1>2, NotTheServers, OneFamily
  <1>6. <<program, opt>>' \in CommandLines
    BY <1>1 DEF IInv
  <1> QED
    BY <1>3, <1>4, <1>5, <1>6 DEF IInv, ServerInv

LEMMA CopiersKeep ==
    ASSUME IInv, CopierStep \/ CopierOutside, InCopiers, UNCHANGED <<commandLine, given>>
    PROVE  IInv'
  <1>1. UNCHANGED <<program, opt>> /\ UNCHANGED <<pipeVars, serverVars, exchangeVars>>
    BY DEF InCopiers, commandLine
  <1>2. PipeTypes' /\ ServerTypes' /\ ExchangeTypes'
    BY <1>1, FramePipes, FrameServers, FrameExchanges DEF IInv
  <1>3. <<program, opt>>' \in CommandLines
    BY <1>1 DEF IInv
  <1>4. CASE Is("simplecat") /\ SimpleCat
    <2>1. CopierTypes' /\ SimpleCatInv' /\ UNCHANGED socketVars /\ pc' = [b \in Actors |-> pc'[b]]
      BY <1>1, <1>4, SimpleCatKeeps DEF IInv
    <2>2. Network'
      BY <2>1, SocketsKept DEF IInv
    <2>3. ~Is("cat") /\ ~Is("writeselect") /\ ~Is("udp") /\ ~Is("unix")
      BY <1>4 DEF Is
    <2>4. ServerInv' /\ CatInv' /\ SenderInv' /\ WriteSelectInv' /\ UdpInv' /\ UnixInv'
      BY <1>1, <1>4, <2>3, NotTheOthers, OneFamily
    <2> QED
      BY <1>2, <1>3, <2>1, <2>2, <2>4 DEF IInv
  <1>5. CASE Is("cat") /\ Cat
    <2>1. CopierTypes' /\ CatInv' /\ UNCHANGED socketVars /\ pc' = [b \in Actors |-> pc'[b]]
      BY <1>1, <1>5, CatKeeps, CatKeepsSockets DEF IInv
    <2>2. Network'
      BY <2>1, SocketsKept DEF IInv
    <2>3. ~Is("simplecat") /\ ~Is("writeselect") /\ ~Is("udp") /\ ~Is("unix")
      BY <1>5 DEF Is
    <2>4. ServerInv' /\ SimpleCatInv' /\ SenderInv' /\ WriteSelectInv' /\ UdpInv' /\ UnixInv'
      BY <1>1, <1>5, <2>3, NotTheOthers, OneFamily
    <2> QED
      BY <1>2, <1>3, <2>1, <2>2, <2>4 DEF IInv
  <1>6. ASSUME program \in {"connect", "linger"}
        PROVE  ServerInv' /\ SimpleCatInv' /\ CatInv' /\ WriteSelectInv' /\ UdpInv' /\ UnixInv'
    <2>1. ~Is("simplecat") /\ ~Is("cat") /\ ~Is("writeselect") /\ ~Is("udp") /\ ~Is("unix")
      BY <1>6 DEF Is
    <2>2. program \notin ServerPrograms
      BY <1>6 DEF ServerPrograms
    <2> QED
      BY <1>1, <2>1, <2>2, OneFamily
  <1>7. CASE program \in {"connect", "linger"} /\ (ConnectMain \/ LingerMain) /\ CopierStep
    <2>1. Network' /\ CopierTypes' /\ Sending' /\ pc' = [b \in Actors |-> pc'[b]]
      BY <1>1, <1>7, SenderKeeps DEF IInv, SenderInv
    <2>2. LingerEnds'
      BY <1>1, <1>7, LingerEndsKept DEF IInv, SenderInv
    <2> QED
      BY <1>2, <1>3, <1>6, <1>7, <2>1, <2>2 DEF IInv, SenderInv
  <1>8. CASE CopierOutside
    <2>1. /\ program \in {"connect", "linger"} /\ UNCHANGED <<pc, copierVars>>
          /\ \/ Sends(1) \/ Closes(1) \/ Resets(1) \/ Takes(1)
             \/ At(0, "ended") /\ conn[1] = "open" /\ Aborts(1)
      BY <1>8 DEF CopierOutside
    <2>2. 1 \in Peers /\ UNCHANGED <<left, badInput>>
      BY <2>1 DEF Peers, copierVars
    <2>3. Network' /\ Sending'
      <3>1. CASE Sends(1) \/ Closes(1) \/ Resets(1) \/ Takes(1)
        <4>1. Network'
          BY <2>2, <3>1, PeerKeepsNetwork DEF IInv, PeerStep
        <4>2. Sending'
          BY <1>1, <2>1, <2>2, <3>1, PeerKeepsSender DEF IInv, SenderInv
        <4> QED
          BY <4>1, <4>2
      <3>2. CASE At(0, "ended") /\ conn[1] = "open" /\ Aborts(1)
        BY <2>1, <2>2, <3>2, AbortKeepsSender DEF IInv, SenderInv, At
      <3> QED
        BY <2>1, <3>1, <3>2
    <2>4. LingerEnds'
      BY <1>1, <2>1, <2>2, LingerEndsKept DEF IInv, SenderInv
    <2>5. CopierTypes' /\ pc' = [b \in Actors |-> pc'[b]]
      BY <2>1, FrameCopiers DEF IInv
    <2> QED
      BY <1>2, <1>3, <1>6, <2>1, <2>3, <2>4, <2>5 DEF IInv, SenderInv
  <1> QED
    BY <1>4, <1>5, <1>7, <1>8 DEF CopierStep, Is

LEMMA ExchangesKeep ==
    ASSUME IInv, (\E a \in Actors : ExchangeStep(a)) \/ ExchangeOutside, InExchanges,
           UNCHANGED <<commandLine, given>>
    PROVE  IInv'
  <1>1. UNCHANGED <<program, opt>> /\ UNCHANGED <<pipeVars, serverVars, copierVars>>
    BY DEF InExchanges, commandLine
  <1>2. PipeTypes' /\ ServerTypes' /\ CopierTypes'
    BY <1>1, FramePipes, FrameServers, FrameCopiers DEF IInv
  <1>3. <<program, opt>>' \in CommandLines
    BY <1>1 DEF IInv
  <1>4. CASE Is("writeselect") /\ (WriteSelect \/ ConnectOnly \/ \E a \in {0, 1} : Interrupted(a))
    <2>1. Network' /\ ExchangeTypes' /\ Numbered' /\ pc' = [b \in Actors |-> pc'[b]]
      BY <1>1, <1>4, WriteSelectKeeps, ConnectOnlyKeeps, InterruptedKeeps DEF IInv, WriteSelectInv
    <2>2. ~Is("simplecat") /\ ~Is("cat") /\ ~Is("udp") /\ ~Is("unix")
      BY <1>4 DEF Is
    <2>3. ServerInv' /\ SimpleCatInv' /\ CatInv' /\ SenderInv' /\ UdpInv' /\ UnixInv'
      BY <1>1, <1>4, <2>2, NotTheOthers, OneFamily
    <2> QED
      BY <1>2, <1>3, <2>1, <2>3 DEF IInv, WriteSelectInv
  <1>5. CASE Is("udp") /\ (UdpServer \/ UdpClient \/ (\E k \in net : Loses(k)) \/ Stranger)
    <2>1. /\ ExchangeTypes' /\ Datagrams' /\ UNCHANGED socketVars
          /\ pc' = [b \in Actors |-> pc'[b]]
      BY <1>1, <1>5, UdpServerKeeps, UdpClientKeeps, UdpOutsideKeeps DEF IInv, UdpInv
    <2>2. Network'
      BY <2>1, SocketsKept DEF IInv
    <2>3. ~Is("simplecat") /\ ~Is("cat") /\ ~Is("writeselect") /\ ~Is("unix")
      BY <1>5 DEF Is
    <2>4. ServerInv' /\ SimpleCatInv' /\ CatInv' /\ SenderInv' /\ WriteSelectInv' /\ UnixInv'
      BY <1>1, <1>5, <2>3, NotTheOthers, OneFamily
    <2> QED
      BY <1>2, <1>3, <2>1, <2>2, <2>4 DEF IInv, UdpInv
  <1>6. CASE Is("unix") /\ (UnixServer \/ UnixClient)
    <2>1. Network' /\ ExchangeTypes' /\ Meeting' /\ pc' = [b \in Actors |-> pc'[b]]
      BY <1>1, <1>6, UnixServerKeeps, UnixClientKeeps DEF IInv, UnixInv
    <2>2. ~Is("simplecat") /\ ~Is("cat") /\ ~Is("writeselect") /\ ~Is("udp")
      BY <1>6 DEF Is
    <2>3. ServerInv' /\ SimpleCatInv' /\ CatInv' /\ SenderInv' /\ WriteSelectInv' /\ UdpInv'
      BY <1>1, <1>6, <2>2, NotTheOthers, OneFamily
    <2> QED
      BY <1>2, <1>3, <2>1, <2>3 DEF IInv, UnixInv
  <1> QED
    BY <1>4, <1>5, <1>6 DEF ExchangeStep, ExchangeOutside

\* Somebody types, or nothing happens at all.
LEMMA InputKeeps ==
    ASSUME IInv, Input \/ UNCHANGED vars
    PROVE  IInv'
  <1>1. /\ UNCHANGED <<program, opt, pc, pipeVars, socketVars, serverVars, copierVars>>
        /\ UNCHANGED exchangeVars
    BY DEF Input, vars, commandLine
  <1>2. /\ UNCHANGED <<back, unread, conn, backlog, sent, got, cur, out, lines, typed, left>>
        /\ UNCHANGED <<heard, grams, net, stranger>>
    BY <1>1 DEF socketVars, serverVars, copierVars, exchangeVars
  <1>3. PipeTypes' /\ Network' /\ ServerTypes' /\ CopierTypes' /\ ExchangeTypes'
    BY <1>1, FramePipes, SocketsKept, FrameServers, FrameCopiers, FrameExchanges DEF IInv
  <1>4. SimpleCatInv' /\ CatInv'
    BY <1>1, FrameCopying DEF IInv
  <1>5. WriteSelectInv' /\ UdpInv' /\ UnixInv'
    BY <1>1, <1>2, FramePairs DEF IInv
  <1>6. \A l \in {"start", "write", "ended", "echo"} : At(0, l)' <=> At(0, l)
    BY <1>1 DEF At
  <1>7. SenderInv'
    <2>1. LingerEnds => LingerEnds'
      BY <1>1 DEF LingerEnds, Is, At, copierVars
    <2>2. Sending => Sending'
      BY <1>1, <1>2, <1>6 DEF Sending
    <2> QED
      BY <1>1, <2>1, <2>2 DEF IInv, SenderInv
  <1>8. ServerInv'
    <2>1. Serves => Serving'
      BY <1>1, <1>2 DEF Serves, Serving, At
    <2>2. Serves => Queued' /\ Printed' /\ InOrder' /\ AllPrinted' /\ Echoed' /\ Left'
      BY <1>1, <1>2, <1>6, DataKept
    <2>3. KilledByPeer => KilledByPeer'
      BY <1>1, <1>2 DEF KilledByPeer, At
    <2> QED
      BY <1>1, <2>1, <2>2, <2>3 DEF IInv, ServerInv, Serves
  <1>9. /\ <<program, opt>>' \in CommandLines /\ (pc = [a \in Actors |-> pc[a]])'
        /\ (given \in 0 .. (K + 1))'
    BY <1>1, StreamsAssumption DEF IInv, Input, vars
  <1> QED
    BY <1>3, <1>4, <1>5, <1>7, <1>8, <1>9 DEF IInv

LEMMA NextKeeps ==
    ASSUME IInv, [Next]_vars
    PROVE  IInv'
  <1>1. ASSUME NEW a \in Actors, Step(a)
        PROVE  IInv'
    BY <1>1, PipesKeep, ServersKeep, CopiersKeep, ExchangesKeep DEF Step
  <1>2. CASE Outside
    BY <1>2, PipesKeep, ServersKeep, CopiersKeep, ExchangesKeep DEF Outside
  <1> QED
    BY <1>1, <1>2, ArrivalKeeps, InputKeeps DEF Next
-----------------------------------------------------------------------------
(* The start.                                                              *)

LEMMA PairFact ==
    ASSUME NEW P, NEW Q, NEW c \in P \X Q
    PROVE  c = <<c[1], c[2]>>
  OBVIOUS

LEMMA TupleFact ==
    ASSUME NEW a, NEW b, NEW c, c = <<a, b>>
    PROVE  c = <<c[1], c[2]>>
  OBVIOUS

LEMMA CommandLinePairs ==
    ASSUME NEW c \in CommandLines
    PROVE  c = <<c[1], c[2]>>
  <1>1. \/ c \in (PipePrograms \cup ServerPrograms \cup CopierPrograms \cup ExchangePrograms) \X {""}
        \/ \E a, b : c = <<a, b>>
    BY Zenon DEF CommandLines
  <1> QED
    BY Zenon, <1>1, PairFact, TupleFact

LEMMA InitFiles ==
    ASSUME CopiersInit
    PROVE  files \in Seq(FileKinds) /\ badInput \in BOOLEAN
  <1>1. files \in UNION {[1 .. n -> FileKinds] : n \in 0 .. 2} \/ files = <<>>
    BY DEF CopiersInit
  <1>2. files \in Seq(FileKinds)
    <2>1. CASE files = <<>>
      BY <2>1
    <2>2. CASE files \in UNION {[1 .. n -> FileKinds] : n \in 0 .. 2}
      <3>1. PICK n \in 0 .. 2 : files \in [1 .. n -> FileKinds]
        BY <2>2
      <3>2. n \in Nat
        BY <3>1
      <3> QED
        BY <3>1, <3>2
    <2> QED
      BY <1>1, <2>1, <2>2
  <1>3. badInput \in BOOLEAN
    BY DEF CopiersInit
  <1> QED
    BY <1>2, <1>3

LEMMA InitKeeps ==
    ASSUME Init
    PROVE  IInv
  <1>1. <<program, opt>> \in CommandLines
    <2>1. PICK c \in CommandLines : program = c[1] /\ opt = c[2]
      BY DEF Init
    <2>2. c = <<c[1], c[2]>>
      BY CommandLinePairs
    <2> QED
      BY Zenon, <2>1, <2>2
  <1>2. /\ pc = [a \in Actors |-> pc[a]] /\ pc[0] = "start"
        /\ Is("unix") => pc[1] = "unborn"
        /\ given \in 0 .. (K + 1)
    BY StreamsAssumption DEF Init, Actors, Is
  <1>3. PipesInit /\ SocketsInit /\ ServersInit /\ CopiersInit /\ ExchangesInit
    BY DEF Init
  <1>4. K \in Nat /\ K > 0 /\ Cap \in Nat /\ Lines \in Nat /\ 1 \in Peers
    BY StreamsAssumption, SocketsAssumption, ServersAssumption DEF Peers
  <1>5. \A c \in Peers : /\ conn[c] = "new" /\ sent[c] = 0 /\ rx[c] = 0 /\ got[c] = 0
                         /\ unread[c] = 0 /\ back[c] = <<>> /\ Len(back[c]) = 0
    BY <1>3 DEF SocketsInit
  <1>6. PipeTypes
    BY <1>3 DEF PipesInit, PipeTypes
  <1>7. Network
    <2>1. 0 \in 0 .. Cap /\ 0 \in 0 .. K
      BY <1>4
    <2>2. <<>> \in Seq(Words) /\ <<>> \in Seq(Peers)
      OBVIOUS
    <2>3. SocketTypes
      BY <1>3, <2>1, <2>2 DEF SocketsInit, SocketTypes, States
    <2>4. Arriving
      BY <1>5 DEF Arriving, Arrived
    <2> QED
      BY <2>3, <2>4 DEF Network
  <1>8. ServerTypes
    BY <1>3, <1>4 DEF ServersInit, ServerTypes
  <1>9. CopierTypes
    <2>1. files \in Seq(FileKinds) /\ badInput \in BOOLEAN
      BY <1>3, InitFiles
    <2>2. Len(files) \in Nat
      BY <2>1
    <2>3. optind = 1 /\ ret = 0 /\ left = K /\ copied = <<>>
      BY <1>3 DEF CopiersInit
    <2>4. optind \in 1 .. (Len(files) + 1) /\ left \in 0 .. K
      BY <1>4, <2>2, <2>3
    <2> QED
      BY <2>1, <2>3, <2>4 DEF CopierTypes
  <1>10. ExchangeTypes
    BY <1>3, <1>4 DEF ExchangesInit, ExchangeTypes
  <1>11. ServerInv
    <2>1. Serving /\ Queued
      BY <1>2, <1>3 DEF Serving, Queued, ServersInit, SocketsInit, At
    <2>2. Printed /\ InOrder
      BY <1>3 DEF Printed, InOrder, ServersInit
    <2>3. AllPrinted /\ Left
      BY <1>5 DEF AllPrinted, Left
    <2>4. Echoed
      <3>1. ~At(0, "echo")
        BY <1>2 DEF At
      <3> QED
        BY <1>5, <3>1 DEF Echoed
    <2> QED
      BY <1>2, <2>1, <2>2, <2>3, <2>4 DEF ServerInv, Serves, KilledByPeer, At
  <1>12. SimpleCatInv
    <2>1. left = K /\ copied = <<>> /\ Len(copied) = 0 /\ ~At(0, "ended")
      BY <1>2, <1>3 DEF CopiersInit, At
    <2> QED
      BY <1>4, <2>1 DEF SimpleCatInv
  <1>13. CatInv
    <2>1. copied = <<>> /\ DOMAIN copied = {} /\ ret = 0 /\ optind = 1
      BY <1>3 DEF CopiersInit
    <2>2. CatPrinted /\ CatStatus
      BY <2>1 DEF CatPrinted, CatStatus
    <2>3. CatReading
      BY <1>2 DEF CatReading, At
    <2> QED
      BY <2>2, <2>3 DEF CatInv
  <1>14. SenderInv
    <2>1. left = K /\ (K - left) = 0
      BY <1>3, <1>4 DEF CopiersInit
    <2>2. conn[1] = "new" /\ Len(back[1]) = 0 /\ DOMAIN back[1] = {}
      BY <1>4, <1>5
    <2> QED
      BY <1>2, <2>1, <2>2 DEF SenderInv, Sending, LingerEnds, At
  <1>15. WriteSelectInv
    <2>1. total = 0 /\ unread[1] = 0 /\ DOMAIN back[1] = {}
      BY <1>4, <1>5 DEF total
    <2>2. heard[1] = <<>> /\ Len(heard[1]) = 0 /\ DOMAIN heard[1] = {} /\ <<>> \in Seq(Nat)
      BY <1>3 DEF ExchangesInit
    <2> QED
      BY <2>1, <2>2 DEF WriteSelectInv, Numbered
  <1>16. UdpInv
    <2>1. /\ heard[0] = <<>> /\ DOMAIN heard[0] = {} /\ <<>> \in Seq(Nat \X {"head", "short"})
          /\ net = {} /\ ~At(0, "ended")
      BY <1>2, <1>3 DEF ExchangesInit, At
    <2> QED
      BY <2>1 DEF UdpInv, Datagrams
  <1>17. UnixInv
    <2>1. heard[0] = <<>> /\ heard[1] = <<>> /\ unread[1] = 0
      BY <1>3, <1>4, <1>5 DEF ExchangesInit
    <2>2. <<>> # <<GetOut>>
      OBVIOUS
    <2> QED
      BY <1>2, <2>1, <2>2 DEF UnixInv, Meeting, At
  <1> QED
    BY <1>1, <1>2, <1>6, <1>7, <1>8, <1>9, <1>10, <1>11, <1>12, <1>13, <1>14, <1>15, <1>16, <1>17
    DEF IInv

LEMMA IInvAlways == Spec => []IInv
  <1>1. Init => IInv
    BY InitKeeps
  <1>2. IInv /\ [Next]_vars => IInv'
    BY NextKeeps
  <1> QED
    BY <1>1, <1>2, PTL DEF Spec
-----------------------------------------------------------------------------
(* What follows.                                                           *)

\* Type correctness: no connection has more than the kernel takes, a server that
\* waits for the next connection has closed the one before.
THEOREM StreamTypeCorrect == Spec => []TypeOK
  <1>1. IInv => TypeOK
    <2> SUFFICES ASSUME IInv PROVE TypeOK
      OBVIOUS
    <2>1. /\ <<program, opt>> \in CommandLines
          /\ reads \subseteq Actors /\ writes \subseteq Actors /\ inPipe = made - taken
      BY DEF IInv, PipeTypes
    <2>2. \A c \in Peers : /\ conn[c] \in States /\ unread[c] \in 0 .. Cap
                           /\ got[c] + rx[c] <= sent[c] /\ sent[c] <= K
      <3> SUFFICES ASSUME NEW c \in Peers
                   PROVE  /\ conn[c] \in States /\ unread[c] \in 0 .. Cap
                          /\ got[c] + rx[c] <= sent[c] /\ sent[c] <= K
        OBVIOUS
      <3> QED
        BY PeerTypes DEF IInv, Arrived
    <2>3. cur \in {0} \cup Peers /\ lines <= typed /\ typed <= Lines
      BY ServersAssumption DEF IInv, ServerTypes
    <2>4. program \in ServerPrograms /\ At(0, Top) => cur = 0
      BY DEF IInv, ServerInv, Serves, Serving, At, Top
    <2>5. ret \in {0, 1} /\ left \in 0 .. K /\ given \in 0 .. (K + 1)
      BY DEF IInv, CopierTypes
    <2>6. Len(grams) <= K /\ net \subseteq 0 .. Len(grams)
      BY DEF IInv, ExchangeTypes
    <2> QED
      BY <2>1, <2>2, <2>3, <2>4, <2>5, <2>6 DEF TypeOK
  <1> QED
    BY <1>1, IInvAlways, PTL

LEMMA CountingFacts ==
    ASSUME NEW n \in Nat
    PROVE  /\ Len([k \in 1 .. n |-> k]) = n /\ DOMAIN [k \in 1 .. n |-> k] = 1 .. n
           /\ \A k \in 1 .. n : [i \in 1 .. n |-> i][k] = k
  OBVIOUS

\* Counting from one is a prefix of counting further.
LEMMA CountingPrefix ==
    ASSUME NEW S, NEW s \in Seq(S), NEW n \in Nat, Len(s) <= n, \A k \in DOMAIN s : s[k] = k
    PROVE  IsPrefixOf(s, [k \in 1 .. n |-> k])
  <1>1. Len([k \in 1 .. n |-> k]) = n /\ \A k \in 1 .. n : [i \in 1 .. n |-> i][k] = k
    BY CountingFacts
  <1>2. Len(s) \in Nat /\ DOMAIN s = 1 .. Len(s)
    OBVIOUS
  <1>3. \A k \in DOMAIN s : k \in 1 .. n
    BY <1>2
  <1> QED
    BY <1>1, <1>3 DEF IsPrefixOf

LEMMA ServersFaithful ==
    ASSUME IInv, program \in ServerPrograms
    PROVE  /\ \A i, j \in DOMAIN out : i < j /\ out[i][1] = out[j][1] =>
                /\ out[i][2] < out[j][2]
                /\ out[i][1] # 0 => \A k \in i .. j : out[k][1] = out[i][1]
           /\ Pieces(out, 0) \subseteq 1 .. typed
           /\ \A c \in Peers :
                /\ Pieces(out, c) \subseteq 1 .. got[c]
                /\ program \in {"sink", "echo", "reuse", "select"} => Pieces(out, c) = 1 .. got[c]
                /\ IsPrefixOf(back[c], [k \in 1 .. got[c] |-> k])
                /\ got[c] > 0 /\ cur # c /\ conn[c] # "broken" => got[c] = sent[c]
           /\ At(0, "killed") => /\ program \in {"echo", "inetd"}
                                 /\ cur # 0 /\ conn[cur] = "broken"
  <1>1. Serves /\ Network /\ ServerTypes
    BY DEF IInv, ServerInv
  <1>2. \A i, j \in DOMAIN out : i < j /\ out[i][1] = out[j][1] =>
           /\ out[i][2] < out[j][2]
           /\ out[i][1] # 0 => \A k \in i .. j : out[k][1] = out[i][1]
    BY <1>1 DEF Serves, InOrder
  <1>3. Pieces(out, 0) \subseteq 1 .. typed
    <2> SUFFICES ASSUME NEW i \in DOMAIN out, out[i][1] = 0 PROVE out[i][2] \in 1 .. typed
      BY DEF Pieces
    <2>1. out[i][2] \in 1 .. (typed - lines)
      BY <1>1 DEF Serves, Printed
    <2>2. lines \in Nat /\ typed \in Nat
      BY <1>1, ServersAssumption DEF ServerTypes
    <2> QED
      BY <2>1, <2>2
  <1>4. ASSUME NEW c \in Peers
        PROVE  /\ Pieces(out, c) \subseteq 1 .. got[c]
               /\ program \in {"sink", "echo", "reuse", "select"} => Pieces(out, c) = 1 .. got[c]
               /\ IsPrefixOf(back[c], [k \in 1 .. got[c] |-> k])
               /\ got[c] > 0 /\ cur # c /\ conn[c] # "broken" => got[c] = sent[c]
    <2>1. \A i \in DOMAIN out : out[i][1] = c => out[i][2] \in 1 .. got[c]
      BY <1>1 DEF Serves, Printed
    <2>2. Pieces(out, c) \subseteq 1 .. got[c]
      BY <2>1 DEF Pieces
    <2>3. ASSUME program \in {"sink", "echo", "reuse", "select"}, NEW k \in 1 .. got[c]
          PROVE  k \in Pieces(out, c)
      <3>1. PICK i \in DOMAIN out : out[i] = <<c, k>>
        BY <1>1, <2>3 DEF Serves, AllPrinted
      <3> QED
        BY <3>1 DEF Pieces
    <2>4. back[c] \in Seq(Words) /\ got[c] \in Nat
      BY <1>1, PeerTypes
    <2>5. Len(back[c]) <= got[c] /\ \A k \in DOMAIN back[c] : back[c][k] = k
      BY <1>1 DEF Serves, Echoed
    <2>6. IsPrefixOf(back[c], [k \in 1 .. got[c] |-> k])
      BY <2>4, <2>5, CountingPrefix
    <2>7. got[c] > 0 /\ cur # c /\ conn[c] # "broken" => got[c] = sent[c]
      BY <1>1 DEF Serves, Left
    <2> QED
      BY <2>2, <2>3, <2>6, <2>7
  <1>5. At(0, "killed") => program \in {"echo", "inetd"} /\ cur # 0 /\ conn[cur] = "broken"
    BY DEF IInv, ServerInv, KilledByPeer
  <1> QED
    BY <1>2, <1>3, <1>4, <1>5

LEMMA SimpleCatFaithful ==
    ASSUME IInv, Is("simplecat")
    PROVE  /\ IsPrefixOf(copied, Whole(1, K))
           /\ At(0, "ended") => copied = Whole(1, K)
  <1>1. /\ Len(copied) = K - left /\ \A k \in DOMAIN copied : copied[k] = <<1, k>>
        /\ At(0, "ended") => left = 0
    BY DEF IInv, SimpleCatInv
  <1>2. /\ K \in Nat /\ left \in Nat /\ copied \in Seq(Nat \X Nat)
        /\ DOMAIN copied = 1 .. Len(copied) /\ Len(copied) \in Nat
    BY CopierNumbers DEF IInv
  <1>3. /\ Len(Whole(1, K)) = K /\ DOMAIN Whole(1, K) = 1 .. K
        /\ \A k \in 1 .. K : Whole(1, K)[k] = <<1, k>>
    BY <1>2 DEF Whole
  <1>4. Len(copied) <= K /\ \A k \in DOMAIN copied : k \in 1 .. K
    BY <1>1, <1>2
  <1>5. IsPrefixOf(copied, Whole(1, K))
    BY <1>1, <1>3, <1>4 DEF IsPrefixOf
  <1>6. ASSUME At(0, "ended")
        PROVE  copied = Whole(1, K)
    <2>1. DOMAIN copied = 1 .. K
      BY <1>1, <1>2, <1>6
    <2>2. copied = [k \in 1 .. K |-> copied[k]]
      BY <1>2, <2>1
    <2>3. \A k \in 1 .. K : copied[k] = <<1, k>>
      BY <1>1, <2>1
    <2> QED
      BY <2>2, <2>3 DEF Whole
  <1> QED
    BY <1>5, <1>6

LEMMA CatFaithful ==
    ASSUME IInv, Is("cat"), At(0, "ended")
    PROVE  /\ NoOption => ((ret = 0) = ((\A f \in DOMAIN files : Pieces(copied, f) = 1 .. K)
                                        /\ ~(\E f \in DOMAIN files : files[f] # "file" \/ badInput)))
           /\ NoRoom => copied = <<>>
           /\ \A i, j \in DOMAIN copied : i < j => Before(copied[i], copied[j])
  <1>1. CatPrinted /\ CatStatus /\ CatReading /\ CopierTypes
    BY DEF IInv, CatInv
  <1>2. optind > Len(files)
    BY <1>1 DEF CatReading
  <1>3. 1 .. (optind - 1) = DOMAIN files
    <2>1. /\ DOMAIN files = 1 .. Len(files) /\ Len(files) \in Nat
          /\ optind \in 1 .. (Len(files) + 1)
      BY <1>1 DEF CopierTypes
    <2> QED
      BY <1>2, <2>1
  <1>4. ASSUME NoOption, \A f \in DOMAIN files : files[f] = "file", NEW f \in DOMAIN files
        PROVE  Pieces(copied, f) = 1 .. K
    <2>1. \A k \in 1 .. K : \E i \in DOMAIN copied : copied[i] = <<f, k>>
      BY <1>1, <1>3, <1>4 DEF CatStatus
    <2>2. \A i \in DOMAIN copied : copied[i][2] \in 1 .. K
      BY <1>1 DEF CatPrinted
    <2>3. Pieces(copied, f) \subseteq 1 .. K
      BY <2>2 DEF Pieces
    <2>4. 1 .. K \subseteq Pieces(copied, f)
      BY <2>1 DEF Pieces
    <2> QED
      BY <2>3, <2>4
  <1>5. NoOption => (ret = 0 <=> \A f \in DOMAIN files : files[f] = "file" /\ ~badInput)
    BY <1>1, <1>3 DEF CatStatus
  <1>6. ASSUME NoOption
        PROVE  ret = 0 <=> /\ \A f \in DOMAIN files : Pieces(copied, f) = 1 .. K
                           /\ ~(\E f \in DOMAIN files : files[f] # "file" \/ badInput)
    BY <1>4, <1>5, <1>6
  <1>7. NoRoom => copied = <<>>
    BY <1>1 DEF CatStatus
  <1>8. \A i, j \in DOMAIN copied : i < j => Before(copied[i], copied[j])
    BY <1>1 DEF CatPrinted
  <1> QED
    BY <1>6, <1>7, <1>8

LEMMA SendersFaithful ==
    ASSUME IInv, program \in {"connect", "linger"}
    PROVE  /\ IsPrefixOf(back[1], [k \in 1 .. K |-> k])
           /\ At(0, "ended") /\ conn[1] \in {"open", "fin"} => Len(back[1]) = K
           /\ Is("linger") /\ At(0, "ended") => ~badInput
  <1>1. Sending /\ Network /\ CopierTypes
    BY DEF IInv, SenderInv
  <1>2. /\ back[1] \in Seq(Words) /\ K \in Nat /\ left \in Nat /\ Len(back[1]) \in Nat
        /\ Len(back[1]) <= (K - left)
    BY <1>1, SenderNumbers DEF Sending
  <1>3. Len(back[1]) <= K
    BY <1>2
  <1>4. IsPrefixOf(back[1], [k \in 1 .. K |-> k])
    BY <1>1, <1>2, <1>3, CountingPrefix DEF Sending
  <1>5. At(0, "ended") /\ conn[1] \in {"open", "fin"} => Len(back[1]) = K
    BY <1>1 DEF Sending
  <1>6. Is("linger") /\ At(0, "ended") => ~badInput
    BY DEF IInv, SenderInv, LingerEnds
  <1> QED
    BY <1>4, <1>5, <1>6

LEMMA PairsFaithful ==
    ASSUME IInv
    PROVE  /\ Is("writeselect") => heard[1] = [k \in 1 .. Len(heard[1]) |-> k] /\ Len(heard[1]) <= total
           /\ Is("udp") => /\ \A i \in DOMAIN heard[0] :
                                 /\ heard[0][i][1] \in DOMAIN grams
                                 /\ (heard[0][i][2] = "head") = (grams[heard[0][i][1]] = "long")
                           /\ At(0, "ended") => stranger
           /\ Is("unix") /\ heard[1] = <<GetOut>> => heard[0] = <<Hello>>
  <1>1. ASSUME Is("writeselect")
        PROVE  heard[1] = [k \in 1 .. Len(heard[1]) |-> k] /\ Len(heard[1]) <= total
    <2>1. /\ heard[1] \in Seq(Nat) /\ Len(heard[1]) = total - unread[1]
          /\ \A k \in DOMAIN heard[1] : heard[1][k] = k
      BY <1>1 DEF IInv, WriteSelectInv, Numbered
    <2>2. total \in Nat /\ unread[1] \in Nat
      BY ExchangeNumbers DEF IInv
    <2>3. heard[1] = [k \in 1 .. Len(heard[1]) |-> heard[1][k]] /\ DOMAIN heard[1] = 1 .. Len(heard[1])
      BY <2>1
    <2>4. heard[1] = [k \in 1 .. Len(heard[1]) |-> k]
      BY <2>1, <2>3
    <2>5. Len(heard[1]) <= total
      BY <2>1, <2>2
    <2> QED
      BY <2>4, <2>5
  <1>2. ASSUME Is("udp")
        PROVE  /\ \A i \in DOMAIN heard[0] :
                     /\ heard[0][i][1] \in DOMAIN grams
                     /\ (heard[0][i][2] = "head") = (grams[heard[0][i][1]] = "long")
               /\ At(0, "ended") => stranger
    BY <1>2 DEF IInv, UdpInv, Datagrams
  <1>3. Is("unix") /\ heard[1] = <<GetOut>> => heard[0] = <<Hello>>
    BY DEF IInv, UnixInv, Meeting
  <1> QED
    BY <1>1, <1>2, <1>3

\* What comes out is what went in, in order, and all of it where the program or its
\* exit status says so: pipes apart, every program that moves data, whatever the
\* peers, the terminal and the network do.
THEOREM OutputFaithful == Spec => []OutputIsInput
  <1>1. IInv => OutputIsInput
    <2> SUFFICES ASSUME IInv PROVE OutputIsInput
      OBVIOUS
    <2>1. Is("cat") /\ At(0, "ended") =>
             LET whole == \A f \in DOMAIN files : Pieces(copied, f) = 1 .. K
                 bad == \E f \in DOMAIN files : files[f] # "file" \/ badInput
             IN /\ opt = "" => (ret = 0) = (whole /\ ~bad)
                /\ opt = "0" => copied = <<>>
                /\ \A i, j \in DOMAIN copied : i < j => Before(copied[i], copied[j])
      BY Zenon, CatFaithful DEF NoOption, NoRoom
    <2>2. program \in {"connect", "linger"} =>
             /\ IsPrefixOf(back[1], [k \in 1 .. K |-> k])
             /\ At(0, "ended") /\ conn[1] \in {"open", "fin"} => Len(back[1]) = K
             /\ Is("linger") /\ At(0, "ended") => ~badInput
      BY Zenon, SendersFaithful
    <2>3. Is("unix") /\ heard[1] = <<"get out!">> => heard[0] = <<"hello!">>
      BY Zenon, PairsFaithful DEF Hello, GetOut
    <2> QED
      BY Zenon, <2>1, <2>2, <2>3, ServersFaithful, SimpleCatFaithful, PairsFaithful DEF OutputIsInput
  <1> QED
    BY <1>1, IInvAlways, PTL
=============================================================================
