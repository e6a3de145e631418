----------------------------- MODULE TtyServer -----------------------------
(***************************************************************************)
(* The terminal server, ttysrv/tty.c: the process at the other end of the  *)
(* teletype's socket.  Its main thread accepts a client, shows what the    *)
(* client writes until it goes, and accepts the next; its second thread,   *)
(* keyb_listen, sends what is typed to the client accepted last.  The two  *)
(* share accept_sock, which is not locked: keyb_listen tests it and uses   *)
(* it in two steps.                                                        *)
(*                                                                         *)
(* The clients (simulators with -e 0, one after the other or at once) and  *)
(* the sockets are external.  A connection exists from connect on, before  *)
(* accept has taken it from the queue of listen.                           *)
(***************************************************************************)
EXTENDS Naturals, Sequences, SequencesExt

CONSTANTS
  Client,       \* the processes that connect, each once
  Output,       \* what each of them writes
  Keys,         \* what is typed at the keyboard
  Descriptors   \* how many connections the process has descriptors for

ESC_CHAR == \o35
FirstFd  == 4           \* after stdin, stdout, stderr and listen_sock

Char == 0 .. 127

ASSUME TtyServerAssumption ==
  /\ Output \in [Client -> Seq(Char)]
  /\ Keys \in Seq(Char)
  /\ Descriptors \in Nat

VARIABLES
  main,         \* where main stands: in accept or in read
  accept_sock,
  fds,          \* the clients behind FirstFd, FirstFd + 1, ...: none is closed
  keyb, in_ch,  \* where keyb_listen stands, and its character
  pressed,      \* how many keys it has read
  shown,        \* what is on the screen
  conn,         \* a client's connection: none, open, closed by it, or reset
  queue,        \* the connections accept has not taken
  wrote, unread,\* how much a client wrote, and what of it the server has not read
  got,          \* what was sent to a client
  pending,      \* what of it the client has not read
  server,       \* up, quit, failed (exit(1)) or killed (by SIGPIPE)
  since         \* history: how many keys had been read at the last accept

screen   == <<main, accept_sock, fds, since, shown>>
keyboard == <<keyb, in_ch, pressed>>
traffic  == <<conn, wrote, unread, got, pending>>
vars     == <<screen, keyboard, traffic, queue, server>>

Upper(c) == IF c \in 97 .. 122 THEN c - 32 ELSE c

Peer == fds[accept_sock - FirstFd + 1]

Init == /\ main = "accept" /\ accept_sock = 0 - 1 /\ fds = << >> /\ since = 0
        /\ keyb = "key" /\ in_ch = 0 /\ pressed = 0
        /\ shown = << >>
        /\ conn = [c \in Client |-> "none"] /\ queue = << >>
        /\ wrote = [c \in Client |-> 0]
        /\ unread = [c \in Client |-> << >>]
        /\ got = [c \in Client |-> << >>]
        /\ pending = [c \in Client |-> 0]
        /\ server = "up"

(***************************************************************************)
(* main                                                                    *)
(***************************************************************************)
(* Without a descriptor accept fails, whether or not somebody waits.       *)
Accept == /\ server = "up" /\ main = "accept"
          /\ \/ /\ Len(fds) < Descriptors /\ queue # << >>
                /\ fds' = Append(fds, Head(queue))
                /\ accept_sock' = FirstFd + Len(fds)
                /\ since' = pressed
                /\ queue' = Tail(queue)
                /\ main' = "read"
                /\ UNCHANGED server
             \/ /\ Len(fds) = Descriptors
                /\ accept_sock' = 0 - 1
                /\ server' = "failed"
                /\ UNCHANGED <<fds, since, queue, main>>
          /\ UNCHANGED <<shown, keyboard, traffic>>

Show == /\ server = "up" /\ main = "read" /\ unread[Peer] # << >>
        /\ shown' = Append(shown, Upper(Head(unread[Peer])))
        /\ unread' = [unread EXCEPT ![Peer] = Tail(@)]
        /\ UNCHANGED <<main, accept_sock, fds, since, keyboard, conn, wrote, got, pending, queue, server>>

Gone(c) == conn[c] \in {"closed", "reset"}

(* End of file or an error, which is only reported: the next client.       *)
(* A slip: the socket does not block, and nothing to read ends the loop.   *)
EndOfReadEmpty == /\ server = "up" /\ main = "read"
                  /\ unread[Peer] = << >>
                  /\ main' = "accept"
                  /\ UNCHANGED <<accept_sock, fds, since, shown, keyboard, traffic, queue, server>>

(* A slip: only end of file ends the loop.                                 *)
EndOfReadEof == /\ server = "up" /\ main = "read"
                /\ unread[Peer] = << >> /\ conn[Peer] = "closed"
                /\ main' = "accept"
                /\ UNCHANGED <<accept_sock, fds, since, shown, keyboard, traffic, queue, server>>

EndOfRead == /\ server = "up" /\ main = "read"
             /\ unread[Peer] = << >> /\ Gone(Peer)
             /\ main' = "accept"
             /\ UNCHANGED <<accept_sock, fds, since, shown, keyboard, traffic, queue, server>>

Main == Accept \/ Show \/ EndOfRead

(***************************************************************************)
(* keyb_listen                                                             *)
(***************************************************************************)
Press == /\ server = "up" /\ keyb = "key" /\ pressed < Len(Keys)
         /\ in_ch' = Keys[pressed + 1]
         /\ pressed' = pressed + 1
         /\ keyb' = IF in_ch' = ESC_CHAR THEN "control" ELSE "test"
         /\ UNCHANGED <<screen, traffic, queue, server>>

(* A line in the control mode: q ends the server, after anything else the  *)
(* escape character goes the way of every key.                             *)
Escape == /\ server = "up" /\ keyb = "control"
          /\ \/ server' = "quit" /\ UNCHANGED keyb
             \/ keyb' = "test" /\ UNCHANGED server
          /\ UNCHANGED <<screen, in_ch, pressed, traffic, queue>>

(* A slip: the argument of the thread is used, accept_sock when it began.  *)
TestArgument == /\ server = "up" /\ keyb = "test"
                /\ keyb' = "key"
                /\ UNCHANGED <<screen, in_ch, pressed, traffic, queue, server>>

Test == /\ server = "up" /\ keyb = "test"
        /\ in_ch' = Upper(in_ch)
        /\ keyb' = IF accept_sock > 0 THEN "write" ELSE "key"
        /\ UNCHANGED <<screen, pressed, traffic, queue, server>>

(* The first write after the client has gone is answered by a reset, which *)
(* may come late; one after that fails, or raises SIGPIPE.  A reset may    *)
(* lose what was not read.                                                 *)
Write == /\ server = "up" /\ keyb = "write"
         /\ keyb' = "key"
         /\ \/ /\ conn[Peer] = "open"
               /\ got' = [got EXCEPT ![Peer] = Append(@, in_ch)]
               /\ pending' = [pending EXCEPT ![Peer] = @ + 1]
               /\ UNCHANGED <<conn, unread, server>>
            \/ /\ conn[Peer] = "closed"
               /\ \/ UNCHANGED <<conn, unread>>
                  \/ /\ conn' = [conn EXCEPT ![Peer] = "reset"]
                     /\ unread' \in {unread, [unread EXCEPT ![Peer] = << >>]}
               /\ UNCHANGED <<got, pending, server>>
            \/ /\ conn[Peer] = "reset"
               /\ server' \in {"up", "killed"}
               /\ UNCHANGED <<conn, unread, got, pending>>
         /\ UNCHANGED <<screen, in_ch, pressed, wrote, queue>>

Keyboard == Press \/ Escape \/ Test \/ Write

(***************************************************************************)
(* The clients                                                             *)
(***************************************************************************)
Connect(c) == /\ server = "up" /\ conn[c] = "none"
              /\ conn' = [conn EXCEPT ![c] = "open"]
              /\ queue' = Append(queue, c)
              /\ UNCHANGED <<screen, keyboard, wrote, unread, got, pending, server>>

Send(c) == /\ server = "up" /\ conn[c] = "open" /\ wrote[c] < Len(Output[c])
           /\ wrote' = [wrote EXCEPT ![c] = @ + 1]
           /\ unread' = [unread EXCEPT ![c] = Append(@, Output[c][wrote[c] + 1])]
           /\ UNCHANGED <<screen, keyboard, conn, got, pending, queue, server>>

Receive(c) == /\ server = "up" /\ conn[c] = "open" /\ pending[c] > 0
              /\ pending' = [pending EXCEPT ![c] = @ - 1]
              /\ UNCHANGED <<screen, keyboard, conn, wrote, unread, got, queue, server>>

(* The process ends.  If it has not read all it was sent, its end of the   *)
(* connection is reset.                                                    *)
Exit(c) == /\ server = "up" /\ conn[c] = "open"
           /\ IF pending[c] = 0
              THEN /\ conn' = [conn EXCEPT ![c] = "closed"]
                   /\ UNCHANGED unread
              ELSE /\ conn' = [conn EXCEPT ![c] = "reset"]
                   /\ unread' \in {unread, [unread EXCEPT ![c] = << >>]}
           /\ UNCHANGED <<screen, keyboard, wrote, got, pending, queue, server>>

Clients == \E c \in Client : Connect(c) \/ Send(c) \/ Receive(c) \/ Exit(c)

Next == Main \/ Keyboard \/ Clients

(* The threads run; a client writes what it has to write, and ends.        *)
Spec == /\ Init /\ [][Next]_vars
        /\ WF_vars(Main)
        /\ WF_vars(Test \/ Write)
        /\ \A c \in Client : WF_vars(Send(c)) /\ WF_vars(Exit(c))

(***************************************************************************)
(* Properties                                                              *)
(***************************************************************************)
(* The screen is the clients' output, client after client in the order in  *)
(* which they were accepted: what the i-th wrote fills the screen from     *)
(* end[i - 1] to end[i], in the order it was written, and completely if    *)
(* the client was followed by another, unless its connection was reset     *)
(* (the two loops of main).                                                *)
ScreenInOrder ==
  \E end \in [0 .. Len(fds) -> 0 .. Len(shown)] :
    /\ end[0] = 0 /\ end[Len(fds)] = Len(shown)
    /\ \A i \in 1 .. Len(fds) :
         /\ end[i - 1] <= end[i] /\ end[i] - end[i - 1] <= wrote[fds[i]]
         /\ \A k \in 1 .. end[i] - end[i - 1] :
              shown[end[i - 1] + k] = Upper(Output[fds[i]][k])
         /\ i < Len(fds) /\ conn[fds[i]] # "reset" => end[i] - end[i - 1] = wrote[fds[i]]

(* doc/teletype.1: what is typed is sent to the process that is connected. *)
(* A client that is accepted and still there was sent every key read since *)
(* then, in order and once, with at most one before them: a key that was   *)
(* read before main replaced accept_sock, and written after.               *)
KeysArrive ==
  accept_sock > 0 /\ conn[Peer] = "open" /\ keyb = "key" =>
    \E k \in {since, since - 1} \cap Nat :
      got[Peer] = [i \in 1 .. pressed - k |-> Upper(Keys[k + i])]

(* What is shown of the output of a client with letters of its own.        *)
Of(c)      == {Upper(x) : x \in Range(Output[c])}
ShownOf(c) == SelectSeq(shown, LAMBDA x : x \in Of(c))

(* Whatever a client wrote appears on the screen, while the server is up   *)
(* and unless the connection is reset: also when it has written, and gone, *)
(* before it was accepted.                                                 *)
EverythingShown ==
  \A c \in Client : \A n \in 1 .. Len(Output[c]) :
    wrote[c] = n ~> conn[c] = "reset" \/ server # "up" \/ Len(ShownOf(c)) >= n
=============================================================================
