------------------------------- MODULE Copiers ------------------------------
(***************************************************************************)
(* Programs that copy until there is no more: read/simple-cat.c, cat.c,    *)
(* tcp/connect.c and linger.c.  A source has K pieces, and then end of     *)
(* file or, if badInput, an error that does not go away.  cat.c reads      *)
(* files, the others stdin: read() waits for somebody to type.             *)
(***************************************************************************)
EXTENDS Sockets

VARIABLES files,     \* cat.c: what the names on the command line are names of
          optind,    \* cat.c: which one it is at
          ret,       \* cat.c: the exit status
          left,      \* pieces of the source not read yet
          badInput,
          copied     \* history: <<file, piece>> written to stdout

copierVars == <<files, optind, ret, left, badInput, copied>>

CopierPrograms == {"simplecat", "cat", "connect", "linger"}
FileKinds == {"file", "dir", "missing"}

CopiersInit == /\ files \in IF Is("cat") THEN UNION {[1 .. n -> FileKinds] : n \in 0 .. 2}
                                         ELSE {<<>>}
               /\ badInput \in IF program \in CopierPrograms THEN BOOLEAN ELSE {FALSE}
               /\ optind = 1 /\ ret = 0 /\ left = K /\ copied = <<>>

Piece == K - left + 1

\* read(0, ...) returns a piece, or end of file.
ReadsPiece == left > 0 /\ Piece <= given /\ left' = left - 1
EndOfInput == left = 0 /\ Piece <= given
-----------------------------------------------------------------------------
SimpleCat == \/ /\ At(0, "start") /\ ReadsPiece
                /\ copied' = Append(copied, <<1, Piece>>)
                /\ UNCHANGED <<pc, files, optind, ret, badInput, socketVars>>
             \/ EndOfInput /\ Moves(0, "start", "ended") /\ UNCHANGED <<copierVars, socketVars>>
-----------------------------------------------------------------------------
(* cat.c.  The option is the size of the buffer: read() of 0 bytes is end  *)
(* of file at once, malloc() of a negative number of bytes fails.          *)

usage == /\ files = <<>> /\ opt = ""
         /\ Moves(0, "start", "failed")
         /\ UNCHANGED <<copierVars, socketVars>>

argument == files[optind]

NextFile(failed) == /\ Goto(0, "start") /\ optind' = optind + 1
                    /\ ret' = IF failed THEN 1 ELSE ret
                    /\ UNCHANGED <<files, left, badInput, copied, socketVars>>

Open == /\ At(0, "start") /\ optind <= Len(files)
        /\ \/ opt = "-1" /\ Goto(0, "failed") /\ UNCHANGED <<copierVars, socketVars>>
           \/ opt # "-1" /\ argument = "missing" /\ NextFile(TRUE)
           \/ /\ opt # "-1" /\ argument # "missing"
              /\ Goto(0, "read") /\ left' = K
              /\ UNCHANGED <<files, optind, ret, badInput, copied, socketVars>>

do_cat == \/ Open
          \/ /\ At(0, "read") /\ argument = "file" /\ opt # "0" /\ left > 0
             /\ left' = left - 1 /\ copied' = Append(copied, <<optind, Piece>>)
             /\ UNCHANGED <<pc, files, optind, ret, badInput, socketVars>>
          \/ /\ At(0, "read") /\ argument = "file"
             /\ opt = "0" \/ (left = 0 /\ ~badInput)
             /\ NextFile(FALSE)
          \/ /\ At(0, "read")
             /\ argument = "dir" \/ (opt # "0" /\ left = 0 /\ badInput)
             /\ NextFile(TRUE)

Cat == \/ usage
       \/ do_cat
       \/ /\ optind > Len(files) /\ ~(files = <<>> /\ opt = "")
          /\ Moves(0, "start", "ended")
          /\ UNCHANGED <<copierVars, socketVars>>
-----------------------------------------------------------------------------
(* connect.c and linger.c send stdin to peer 1, and do not read what the   *)
(* peer sends.                                                             *)

Connect == /\ At(0, "start")
           /\ \/ /\ Goto(0, "read") /\ Becomes(1, "open")
                 /\ UNCHANGED <<backlog, sent, rx, got, back, unread>>
              \/ Goto(0, "failed") /\ UNCHANGED socketVars
           /\ UNCHANGED copierVars

ReadInput == /\ ReadsPiece /\ Moves(0, "read", "write")
             /\ UNCHANGED <<files, optind, ret, badInput, copied, socketVars>>

\* The piece that has been read last.
WriteRemote(l) == /\ At(0, "write")
                  /\ \/ SockWrites(1, Piece - 1) /\ Goto(0, "read")
                     \/ SockWriteError(1) /\ Goto(0, l)
                     \/ SigPipe(1)
                  /\ UNCHANGED copierVars

\* A linger time of 0 makes close() a reset, too.
CloseRemote == /\ IF conn[1] \in {"open", "fin"} /\ (opt = "-L 0" \/ rx[1] > 0)
                  THEN Aborts(1) ELSE UNCHANGED socketVars
               /\ UNCHANGED copierVars

ConnectMain == \/ Connect
               \/ ReadInput
               \/ WriteRemote("ended")
               \/ EndOfInput /\ Moves(0, "read", "ended") /\ CloseRemote

\* n is a size_t: a read() that fails has read a lot.  write() refuses that much.
LingerMain == \/ Connect
              \/ ReadInput
              \/ WriteRemote("read")
              \/ EndOfInput /\ ~badInput /\ Moves(0, "read", "ended") /\ CloseRemote
              \/ EndOfInput /\ badInput /\ Moves(0, "read", "refused") /\ UNCHANGED <<copierVars, socketVars>>
              \/ Moves(0, "refused", "read") /\ UNCHANGED <<copierVars, socketVars>>
-----------------------------------------------------------------------------
CopierStep == \/ Is("simplecat") /\ SimpleCat
              \/ Is("cat") /\ Cat
              \/ Is("connect") /\ ConnectMain
              \/ Is("linger") /\ LingerMain

\* The peer, who may well answer.  What comes after close() resets the connection.
CopierOutside == /\ program \in {"connect", "linger"}
                 /\ \/ ~Dead(0) /\ Sends(1)
                    \/ At(0, "ended") /\ conn[1] = "open" /\ Aborts(1)
                    \/ Closes(1) \/ Resets(1) \/ Takes(1)
                 /\ UNCHANGED <<pc, copierVars>>
=============================================================================
