-------------------------- MODULE TtyServerProofs --------------------------
(***************************************************************************)
(* The terminal server, for all clients, all that is typed and every       *)
(* interleaving of the two threads with the clients: no key that is typed  *)
(* for the client which is connected is lost, doubled or moved, and the    *)
(* screen shows what the clients wrote, one after the other.               *)
(***************************************************************************)
EXTENDS TtyServer, Integers, TLAPS

Conns == {"none", "open", "closed", "reset"}

Typed == /\ fds \in Seq(Client) /\ queue \in Seq(Client)
         /\ conn \in [Client -> Conns] /\ got \in [Client -> Seq(Int)]
         /\ pressed \in Nat /\ pressed <= Len(Keys)
         /\ since \in Nat /\ since <= pressed
         /\ in_ch \in Int /\ keyb \in {"key", "control", "test", "write"}

(* accept_sock is the descriptor of the client accepted last.              *)
Seated == \/ accept_sock = 0 - 1
          \/ Len(fds) > 0 /\ accept_sock = FirstFd + Len(fds) - 1

(* A client connects once: it waits in one place, or was accepted.         *)
Once == /\ \A m, n \in 1 .. Len(queue) : queue[m] = queue[n] => m = n
        /\ \A m \in 1 .. Len(fds), n \in 1 .. Len(queue) : fds[m] # queue[n]
        /\ \A n \in 1 .. Len(queue) : conn[queue[n]] # "none"
        /\ \A m \in 1 .. Len(fds) : conn[fds[m]] # "none"

(* Who was not accepted was sent nothing.                                  *)
Fresh == \A c \in Client :
           (\A m \in 1 .. Len(fds) : fds[m] # c) => got[c] = << >>

(* in_ch is the key read last, in upper case when it is to be written, and *)
(* then there is somebody to write it to.                                  *)
Held == /\ keyb \in {"control", "test"} => pressed > 0 /\ in_ch = Keys[pressed]
        /\ keyb = "write" => pressed > 0 /\ in_ch = Upper(Keys[pressed])
        /\ keyb = "write" /\ server = "up" => accept_sock > 0

(* Of the keys read, all but the one in hand were dealt with.              *)
Dealt == IF keyb = "key" THEN pressed ELSE pressed - 1

(* The client was sent the keys after the k-th up to the n-th.             *)
Sent(c, k, n) == got[c] = [i \in 1 .. n - k |-> Upper(Keys[k + i])]

(* The peer was sent every key dealt with since it was accepted, and at    *)
(* most one before.                                                        *)
PeerSent == accept_sock > 0 /\ conn[Peer] = "open" =>
              \E k \in {since, since - 1} : k \in Nat /\ k <= Dealt /\ Sent(Peer, k, Dealt)

KeysInv == Typed /\ Seated /\ Once /\ Fresh /\ Held /\ PeerSent

LEMMA KeysType ==
  Len(Keys) \in Nat /\ \A i \in 1 .. Len(Keys) : Keys[i] \in Int
<1>1. Keys \in Seq(Char)
  BY TtyServerAssumption DEF TtyServerAssumption
<1>2. Len(Keys) \in Nat /\ \A i \in 1 .. Len(Keys) : Keys[i] \in Char
  BY <1>1
<1>3. \A c \in Char : c \in Int
  BY DEF Char
<1> QED
  BY <1>2, <1>3

LEMMA PeerIs ==
  ASSUME Typed, Seated, accept_sock > 0
  PROVE  Len(fds) > 0 /\ Peer = fds[Len(fds)] /\ Peer \in Client
<1>1. Len(fds) \in Nat /\ Len(fds) > 0 /\ accept_sock = FirstFd + Len(fds) - 1
  BY DEF Typed, Seated
<1>2. accept_sock - FirstFd + 1 = Len(fds)
  BY <1>1 DEF FirstFd
<1>3. fds[Len(fds)] \in Client
  BY <1>1 DEF Typed
<1> QED
  BY <1>1, <1>2, <1>3 DEF Peer

LEMMA InitKeys == Init => KeysInv
<1> SUFFICES ASSUME Init PROVE KeysInv
  OBVIOUS
<1>1. Typed
  <2>1. Len(Keys) \in Nat
    BY KeysType
  <2>2. got \in [Client -> Seq(Int)] /\ conn \in [Client -> Conns]
    BY DEF Init, Conns
  <2> QED
    BY <2>1, <2>2 DEF Init, Typed
<1>2. Seated /\ Held /\ PeerSent
  BY DEF Init, Seated, Held, PeerSent
<1>3. Once /\ Fresh
  BY DEF Init, Once, Fresh
<1> QED
  BY <1>1, <1>2, <1>3 DEF KeysInv

(***************************************************************************)
(* The steps                                                               *)
(***************************************************************************)
(* A connection ends at most.                                              *)
LEMMA EndsAtMost ==
  ASSUME KeysInv, UNCHANGED <<fds, queue, got, accept_sock, pressed, since, in_ch, keyb>>,
         server' = "up" => server = "up",
         conn' \in [Client -> Conns],
         \A c \in Client : /\ conn'[c] = "open" => conn[c] = "open"
                           /\ conn[c] # "none" => conn'[c] # "none"
  PROVE  KeysInv'
<1>1. Typed' /\ Seated' /\ Held'
  BY DEF KeysInv, Typed, Seated, Held
<1>2. Once'
  <2>1. /\ \A n \in 1 .. Len(queue) : queue[n] \in Client
        /\ \A m \in 1 .. Len(fds) : fds[m] \in Client
    BY DEF KeysInv, Typed
  <2> QED
    BY <2>1 DEF KeysInv, Once
<1>3. Fresh'
  BY DEF KeysInv, Fresh
<1>4. PeerSent'
  <2> SUFFICES ASSUME accept_sock' > 0, conn'[Peer'] = "open"
               PROVE  \E k \in {since, since - 1} :
                        k \in Nat /\ k <= Dealt /\ Sent(Peer, k, Dealt)
    BY DEF PeerSent, Dealt, Sent, Peer
  <2>1. Peer' = Peer /\ Peer \in Client /\ accept_sock > 0
    BY PeerIs DEF KeysInv, Peer
  <2> QED
    BY <2>1 DEF KeysInv, PeerSent
<1> QED
  BY <1>1, <1>2, <1>3, <1>4 DEF KeysInv

LEMMA BesideKeys ==
  ASSUME KeysInv,
         UNCHANGED <<fds, queue, conn, got, accept_sock, pressed, since, in_ch, keyb>>,
         server' = "up" => server = "up"
  PROVE  KeysInv'
BY EndsAtMost DEF KeysInv, Typed

LEMMA ExitKeys == ASSUME KeysInv, NEW c \in Client, Exit(c) PROVE KeysInv'
<1>1. /\ UNCHANGED <<fds, queue, got, accept_sock, pressed, since, in_ch, keyb, server>>
      /\ \E v \in {"closed", "reset"} : conn' = [conn EXCEPT ![c] = v]
  BY DEF Exit, screen, keyboard
<1>2. conn \in [Client -> Conns]
  BY DEF KeysInv, Typed
<1>3. /\ conn' \in [Client -> Conns]
      /\ \A d \in Client : /\ conn'[d] = "open" => conn[d] = "open"
                           /\ conn[d] # "none" => conn'[d] # "none"
  BY <1>1, <1>2 DEF Conns
<1> QED
  BY <1>1, <1>3, EndsAtMost

LEMMA ConnectKeys == ASSUME KeysInv, NEW c \in Client, Connect(c) PROVE KeysInv'
<1>1. /\ conn[c] = "none" /\ conn' = [conn EXCEPT ![c] = "open"]
      /\ queue' = Append(queue, c)
      /\ UNCHANGED <<fds, got, accept_sock, pressed, since, in_ch, keyb, server>>
  BY DEF Connect, screen, keyboard
<1>2. Typed' /\ Seated' /\ Held'
  BY <1>1 DEF KeysInv, Typed, Seated, Held, Conns
<1>3. /\ Len(queue) \in Nat /\ Len(queue') = Len(queue) + 1
      /\ \A n \in 1 .. Len(queue) : queue'[n] = queue[n] /\ queue[n] # c
      /\ queue'[Len(queue) + 1] = c
      /\ \A m \in 1 .. Len(fds) : fds[m] # c /\ fds[m] \in Client
  BY <1>1 DEF KeysInv, Typed, Once
<1>4. \A d \in Client : conn'[d] = IF d = c THEN "open" ELSE conn[d]
  BY <1>1 DEF KeysInv, Typed
<1>5. Once'
  <2>1. \A m, n \in 1 .. Len(queue') : queue'[m] = queue'[n] => m = n
    <3>1. \A m \in 1 .. Len(queue') : m \in 1 .. Len(queue) \/ m = Len(queue) + 1
      BY <1>3
    <3> QED
      BY <1>3, <3>1 DEF KeysInv, Once
  <2>2. \A m \in 1 .. Len(fds'), n \in 1 .. Len(queue') : fds'[m] # queue'[n]
    <3>1. \A n \in 1 .. Len(queue') : n \in 1 .. Len(queue) \/ n = Len(queue) + 1
      BY <1>3
    <3> QED
      BY <1>1, <1>3, <3>1 DEF KeysInv, Once
  <2>3. \A n \in 1 .. Len(queue') : conn'[queue'[n]] # "none"
    <3>1. \A n \in 1 .. Len(queue') : n \in 1 .. Len(queue) \/ n = Len(queue) + 1
      BY <1>3
    <3>2. \A n \in 1 .. Len(queue) : queue[n] \in Client
      BY DEF KeysInv, Typed
    <3> QED
      BY <1>3, <1>4, <3>1, <3>2 DEF KeysInv, Once
  <2>4. \A m \in 1 .. Len(fds') : conn'[fds'[m]] # "none"
    BY <1>1, <1>3, <1>4 DEF KeysInv, Once
  <2> QED
    BY <2>1, <2>2, <2>3, <2>4 DEF Once
<1>6. Fresh'
  BY <1>1 DEF KeysInv, Fresh
<1>7. PeerSent'
  <2> SUFFICES ASSUME accept_sock' > 0, conn'[Peer'] = "open"
               PROVE  \E k \in {since, since - 1} :
                        k \in Nat /\ k <= Dealt /\ Sent(Peer, k, Dealt)
    BY <1>1 DEF PeerSent, Dealt, Sent, Peer
  <2>1. Peer' = Peer /\ Peer \in Client /\ accept_sock > 0 /\ Peer = fds[Len(fds)]
        /\ Len(fds) > 0 /\ Len(fds) \in Nat
    BY <1>1, PeerIs DEF KeysInv, Peer, Typed
  <2>2. conn[Peer] = "open"
    BY <1>3, <1>4, <2>1
  <2> QED
    BY <2>1, <2>2 DEF KeysInv, PeerSent
<1> QED
  BY <1>2, <1>5, <1>6, <1>7 DEF KeysInv

LEMMA NothingYet ==
  ASSUME NEW n \in Nat
  PROVE  [i \in 1 .. n - n |-> Upper(Keys[n + i])] = << >>
<1>1. n - n = 0
  OBVIOUS
<1>2. 1 .. 0 = {}
  OBVIOUS
<1>3. [i \in {} |-> Upper(Keys[n + i])] = << >>
  OBVIOUS
<1> QED
  BY <1>1, <1>2, <1>3

(* The next client: it comes out of the queue, and was sent nothing yet.   *)
LEMMA AcceptKeys == ASSUME KeysInv, Accept PROVE KeysInv'
<1>1. CASE Len(fds) < Descriptors /\ queue # << >>
  <2> DEFINE c == Head(queue)
  <2>1. /\ fds' = Append(fds, c) /\ queue' = Tail(queue)
        /\ accept_sock' = FirstFd + Len(fds) /\ since' = pressed
        /\ UNCHANGED <<conn, got, pressed, in_ch, keyb, server>>
    BY <1>1, TtyServerAssumption DEF Accept, traffic, keyboard, TtyServerAssumption, KeysInv, Typed
  <2>2. /\ Len(queue) \in Nat /\ Len(queue) > 0 /\ c = queue[1] /\ c \in Client
        /\ Len(queue') = Len(queue) - 1
        /\ \A n \in 1 .. Len(queue') : queue'[n] = queue[n + 1]
    BY <1>1, <2>1 DEF KeysInv, Typed
  <2>3. /\ Len(fds) \in Nat /\ Len(fds') = Len(fds) + 1
        /\ \A m \in 1 .. Len(fds) : fds'[m] = fds[m] /\ fds[m] # c
        /\ fds'[Len(fds) + 1] = c
    BY <2>1, <2>2 DEF KeysInv, Typed, Once
  <2>4. \A m \in 1 .. Len(fds') : m \in 1 .. Len(fds) \/ m = Len(fds) + 1
    BY <2>3
  <2>5. Typed'
    <3>1. fds' \in Seq(Client) /\ queue' \in Seq(Client)
      BY <1>1, <2>1, <2>2 DEF KeysInv, Typed
    <3>2. Len(Keys) \in Nat
      BY KeysType
    <3> QED
      BY <2>1, <3>1, <3>2 DEF KeysInv, Typed
  <2>6. Seated' /\ accept_sock' > 0
    BY <2>1, <2>3 DEF Seated, FirstFd
  <2>7. Held'
    BY <2>1, <2>6 DEF KeysInv, Held
  <2>8. Once'
    <3>1. \A m, n \in 1 .. Len(queue') : queue'[m] = queue'[n] => m = n
      BY <2>2 DEF KeysInv, Once
    <3>2. \A m \in 1 .. Len(fds'), n \in 1 .. Len(queue') : fds'[m] # queue'[n]
      BY <2>2, <2>3, <2>4 DEF KeysInv, Once
    <3>3. \A n \in 1 .. Len(queue') : conn'[queue'[n]] # "none"
      BY <2>1, <2>2 DEF KeysInv, Once
    <3>4. \A m \in 1 .. Len(fds') : conn'[fds'[m]] # "none"
      BY <2>1, <2>2, <2>3, <2>4 DEF KeysInv, Once
    <3> QED
      BY <3>1, <3>2, <3>3, <3>4 DEF Once
  <2>9. Fresh'
    <3>1. \A m \in 1 .. Len(fds) : m \in 1 .. Len(fds') /\ fds'[m] = fds[m]
      BY <2>3
    <3> QED
      BY <2>1, <3>1 DEF KeysInv, Fresh
  <2>10. PeerSent'
    <3>1. Peer' = c
      <4>1. accept_sock' - FirstFd + 1 = Len(fds) + 1
        BY <2>1, <2>3 DEF FirstFd
      <4> QED
        BY <4>1, <2>3 DEF Peer
    <3>2. got[c] = << >>
      BY <2>2, <2>3 DEF KeysInv, Fresh
    <3>3. got'[c] = << >>
      BY <2>1, <3>2
    <3>4. Dealt' \in {pressed, pressed - 1} /\ pressed \in Nat
      BY <2>1 DEF Dealt, KeysInv, Typed
    <3>5. Dealt' \in Nat
      BY <2>1, <3>4 DEF Dealt, KeysInv, Held, Typed
    <3>6. [i \in 1 .. Dealt' - Dealt' |-> Upper(Keys[Dealt' + i])] = << >>
      BY <3>5, NothingYet
    <3>7. Sent(Peer, Dealt, Dealt)'
      BY <3>1, <3>3, <3>6 DEF Sent
    <3> QED
      BY <2>1, <3>4, <3>5, <3>7 DEF PeerSent
  <2> QED
    BY <2>5, <2>6, <2>7, <2>8, <2>9, <2>10 DEF KeysInv
<1>2. CASE /\ accept_sock' = 0 - 1 /\ server' = "failed"
           /\ UNCHANGED <<fds, since, queue, main>>
  <2>1. UNCHANGED <<conn, got, pressed, in_ch, keyb>>
    BY DEF Accept, traffic, keyboard
  <2> QED
    BY <1>2, <2>1 DEF KeysInv, Typed, Seated, Once, Fresh, Held, PeerSent
<1> QED
  BY <1>1, <1>2 DEF Accept

(* Until the key is written nothing is sent; one more key is in hand.      *)
LEMMA PressKeys == ASSUME KeysInv, Press PROVE KeysInv'
<1>1. /\ keyb = "key" /\ pressed < Len(Keys) /\ in_ch' = Keys[pressed + 1]
      /\ pressed' = pressed + 1 /\ keyb' \in {"control", "test"}
      /\ UNCHANGED <<fds, queue, conn, got, accept_sock, since, server>>
  BY DEF Press, screen, traffic
<1>2. Len(Keys) \in Nat /\ pressed \in Nat
  BY KeysType DEF KeysInv, Typed
<1>3. Keys[pressed + 1] \in Int
  <2>1. pressed + 1 \in 1 .. Len(Keys)
    BY <1>1, <1>2
  <2> QED
    BY <2>1, KeysType
<1>4. Typed'
  BY <1>1, <1>2, <1>3 DEF KeysInv, Typed
<1>5. Seated' /\ Once' /\ Fresh' /\ Held'
  BY <1>1, <1>2 DEF KeysInv, Seated, Once, Fresh, Held
<1>6. PeerSent'
  <2>1. Peer' = Peer /\ Dealt' = Dealt
    BY <1>1, <1>2 DEF Peer, Dealt
  <2>2. \A k, n : Sent(Peer, k, n)' <=> Sent(Peer, k, n)
    BY <1>1, <2>1 DEF Sent
  <2> QED
    BY <1>1, <2>1, <2>2 DEF KeysInv, PeerSent, Sent
<1> QED
  BY <1>4, <1>5, <1>6 DEF KeysInv

LEMMA TestKeys == ASSUME KeysInv, Test PROVE KeysInv'
<1>1. /\ keyb = "test" /\ in_ch' = Upper(in_ch)
      /\ keyb' = IF accept_sock > 0 THEN "write" ELSE "key"
      /\ UNCHANGED <<fds, queue, conn, got, accept_sock, pressed, since, server>>
  BY DEF Test, screen, traffic
<1>2. Typed'
  BY <1>1 DEF KeysInv, Typed, Upper
<1>3. Seated' /\ Once' /\ Fresh' /\ Held'
  BY <1>1 DEF KeysInv, Seated, Once, Fresh, Held
<1>4. PeerSent'
  <2>1. CASE accept_sock > 0
    <3>1. Peer' = Peer /\ Dealt' = Dealt
      BY <1>1, <2>1 DEF Peer, Dealt
    <3> QED
      BY <1>1, <3>1 DEF KeysInv, PeerSent, Sent
  <2>2. CASE ~ accept_sock > 0
    BY <1>1, <2>2 DEF PeerSent
  <2> QED
    BY <2>1, <2>2
<1> QED
  BY <1>2, <1>3, <1>4 DEF KeysInv

LEMMA EscapeKeys == ASSUME KeysInv, Escape PROVE KeysInv'
<1>1. /\ keyb = "control"
      /\ UNCHANGED <<fds, queue, conn, got, accept_sock, pressed, since, in_ch>>
  BY DEF Escape, screen, traffic
<1>2. CASE server' = "quit" /\ UNCHANGED keyb
  BY <1>1, <1>2, BesideKeys
<1>3. CASE keyb' = "test" /\ UNCHANGED server
  <2>1. Typed' /\ Seated' /\ Once' /\ Fresh' /\ Held'
    BY <1>1, <1>3 DEF KeysInv, Typed, Seated, Once, Fresh, Held
  <2>2. Peer' = Peer /\ Dealt' = Dealt
    BY <1>1, <1>3 DEF Peer, Dealt
  <2>3. PeerSent'
    BY <1>1, <2>2 DEF KeysInv, PeerSent, Sent
  <2> QED
    BY <2>1, <2>3 DEF KeysInv
<1> QED
  BY <1>2, <1>3 DEF Escape

(* One key more is sent.                                                   *)
LEMMA OneMore ==
  ASSUME NEW k \in Nat, NEW n \in Nat, k <= n
  PROVE  Append([i \in 1 .. n - k |-> Upper(Keys[k + i])], Upper(Keys[n + 1]))
           = [i \in 1 .. n + 1 - k |-> Upper(Keys[k + i])]
<1> DEFINE U(i) == Upper(Keys[k + i])
<1>1. n - k \in Nat /\ n + 1 - k = (n - k) + 1 /\ k + (n + 1 - k) = n + 1
  OBVIOUS
<1> DEFINE s == [i \in 1 .. n - k |-> U(i)]
           t == [i \in 1 .. n + 1 - k |-> U(i)]
           a == Append(s, U(n + 1 - k))
<1>2. DOMAIN s = 1 .. n - k /\ Len(s) = n - k
  BY <1>1
<1>3. a = [i \in 1 .. Len(s) + 1 |-> IF i \in 1 .. Len(s) THEN s[i] ELSE U(n + 1 - k)]
  BY <1>1, <1>2
<1>4. \A i \in 1 .. n + 1 - k : i \in 1 .. n - k \/ i = n + 1 - k
  OBVIOUS
<1>5. a = t
  BY <1>1, <1>2, <1>3, <1>4
<1> QED
  BY <1>1, <1>5

(* The key in hand goes to the client accepted last, wherever it was read. *)
LEMMA WriteKeys == ASSUME KeysInv, Write PROVE KeysInv'
<1>1. /\ keyb = "write" /\ server = "up" /\ keyb' = "key"
      /\ UNCHANGED <<fds, queue, accept_sock, pressed, since, in_ch>>
  BY DEF Write, screen
<1>2. /\ accept_sock > 0 /\ pressed > 0 /\ pressed \in Nat /\ pressed <= Len(Keys)
      /\ in_ch = Upper(Keys[pressed]) /\ in_ch \in Int
  BY <1>1 DEF KeysInv, Held, Typed
<1>3. /\ Len(fds) \in Nat /\ Len(fds) > 0 /\ Peer = fds[Len(fds)] /\ Peer \in Client
      /\ Peer' = Peer
  BY <1>1, <1>2, PeerIs DEF KeysInv, Typed, Peer
<1>4. Dealt = pressed - 1 /\ Dealt' = pressed
  BY <1>1 DEF Dealt
<1>5. CASE /\ conn[Peer] = "open"
           /\ got' = [got EXCEPT ![Peer] = Append(@, in_ch)]
           /\ UNCHANGED <<conn, server>>
  <2>1. got \in [Client -> Seq(Int)]
    BY DEF KeysInv, Typed
  <2>2. got' \in [Client -> Seq(Int)] /\ got'[Peer] = Append(got[Peer], in_ch)
    BY <1>2, <1>3, <1>5, <2>1
  <2>3. Typed' /\ Seated' /\ Once' /\ Held'
    BY <1>1, <1>5, <2>2 DEF KeysInv, Typed, Seated, Once, Held
  <2>4. Fresh'
    <3>1. \A c \in Client : c # Peer => got'[c] = got[c]
      BY <1>5, <2>1
    <3> QED
      BY <1>1, <1>3, <3>1 DEF KeysInv, Fresh
  <2>5. PeerSent'
    <3>1. PICK k \in {since, since - 1} :
             k \in Nat /\ k <= pressed - 1 /\ Sent(Peer, k, pressed - 1)
      BY <1>2, <1>4, <1>5 DEF KeysInv, PeerSent
    <3>2. pressed - 1 \in Nat /\ (pressed - 1) + 1 = pressed
      BY <1>2
    <3>3. Append([i \in 1 .. (pressed - 1) - k |-> Upper(Keys[k + i])], in_ch)
            = [i \in 1 .. pressed - k |-> Upper(Keys[k + i])]
      BY <1>2, <3>1, <3>2, OneMore
    <3>4. got'[Peer] = [i \in 1 .. pressed - k |-> Upper(Keys[k + i])]
      BY <2>2, <3>1, <3>3 DEF Sent
    <3>5. got'[Peer'] = [i \in 1 .. Dealt' - k |-> Upper(Keys[k + i])]
      BY <1>3, <1>4, <3>4
    <3>6. k <= Dealt' /\ k \in {since', since' - 1}
      BY <1>1, <1>2, <1>4, <3>1
    <3> QED
      BY <3>1, <3>5, <3>6 DEF PeerSent, Sent
  <2> QED
    BY <2>3, <2>4, <2>5 DEF KeysInv
<1>6. CASE /\ conn[Peer] # "open" /\ UNCHANGED got
           /\ conn' = conn \/ conn' = [conn EXCEPT ![Peer] = "reset"]
  <2>1. /\ conn' \in [Client -> Conns] /\ conn'[Peer] # "open"
        /\ \A c \in Client : conn[c] # "none" => conn'[c] # "none"
    BY <1>3, <1>6 DEF KeysInv, Typed, Conns
  <2>2. Typed' /\ Seated' /\ Fresh' /\ Held'
    BY <1>1, <1>6, <2>1 DEF KeysInv, Typed, Seated, Fresh, Held
  <2>3. Once'
    <3>1. /\ \A n \in 1 .. Len(queue) : queue[n] \in Client
          /\ \A m \in 1 .. Len(fds) : fds[m] \in Client
      BY DEF KeysInv, Typed
    <3> QED
      BY <1>1, <2>1, <3>1 DEF KeysInv, Once
  <2>4. PeerSent'
    BY <1>3, <2>1 DEF PeerSent
  <2> QED
    BY <2>2, <2>3, <2>4 DEF KeysInv
<1> QED
  BY <1>5, <1>6 DEF Write

(***************************************************************************)
(* The theorem                                                             *)
(***************************************************************************)
LEMMA NextKeys == KeysInv /\ [Next]_vars => KeysInv'
<1> SUFFICES ASSUME KeysInv, [Next]_vars PROVE KeysInv'
  OBVIOUS
<1>1. CASE Accept
  BY <1>1, AcceptKeys
<1>2. CASE Show \/ EndOfRead
  BY <1>2, BesideKeys DEF Show, EndOfRead, keyboard, traffic
<1>3. CASE Press
  BY <1>3, PressKeys
<1>4. CASE Escape
  BY <1>4, EscapeKeys
<1>5. CASE Test
  BY <1>5, TestKeys
<1>6. CASE Write
  BY <1>6, WriteKeys
<1>7. ASSUME NEW c \in Client, Connect(c) PROVE KeysInv'
  BY <1>7, ConnectKeys
<1>8. ASSUME NEW c \in Client, Exit(c) PROVE KeysInv'
  BY <1>8, ExitKeys
<1>9. ASSUME NEW c \in Client, Send(c) \/ Receive(c) PROVE KeysInv'
  BY <1>9, BesideKeys DEF Send, Receive, screen, keyboard
<1>10. CASE UNCHANGED vars
  BY <1>10, BesideKeys DEF vars, screen, keyboard, traffic
<1> QED
  BY <1>1, <1>2, <1>3, <1>4, <1>5, <1>6, <1>7, <1>8, <1>9, <1>10
     DEF Next, Main, Keyboard, Clients

LEMMA KeysInvArrive == KeysInv => KeysArrive
<1> SUFFICES ASSUME KeysInv, accept_sock > 0, conn[Peer] = "open", keyb = "key"
             PROVE  \E k \in {since, since - 1} \cap Nat :
                      got[Peer] = [i \in 1 .. pressed - k |-> Upper(Keys[k + i])]
  BY DEF KeysArrive
<1>1. PICK k \in {since, since - 1} : k \in Nat /\ Sent(Peer, k, Dealt)
  BY DEF KeysInv, PeerSent
<1> QED
  BY <1>1 DEF Sent, Dealt

(* doc/teletype.1 and keyb_listen in ttysrv/tty.c: whatever the clients do *)
(* and whenever the key is typed, the client being served was sent every   *)
(* key read since it was accepted, once, in order and in upper case, and   *)
(* at most one key before them that was typed for the client before it.    *)
THEOREM KeysAlwaysArrive == Spec => []KeysArrive
<1>1. KeysInv /\ [Next]_vars => KeysInv'
  BY NextKeys
<1>2. KeysInv => KeysArrive
  BY KeysInvArrive
<1> QED
  BY InitKeys, <1>1, <1>2, PTL DEF Spec

(***************************************************************************)
(* The screen                                                              *)
(***************************************************************************)
ScreenTyped == /\ main \in {"accept", "read"}
               /\ wrote \in [Client -> Nat]
               /\ \A c \in Client : wrote[c] <= Len(Output[c])
               /\ unread \in [Client -> Seq(Char)]
               /\ shown \in Seq(Nat)

(* No client is accepted twice.                                            *)
Distinct == \A m, n \in 1 .. Len(fds) : fds[m] = fds[n] => m = n

(* While main reads there is somebody to read from.                        *)
Reads == main = "read" => accept_sock > 0

(* Of what c wrote all but the first n characters are unread, unless they  *)
(* were lost with the connection.                                          *)
Left(c, n) == \/ unread[c] = << >> /\ conn[c] = "reset"
              \/ /\ n + Len(unread[c]) = wrote[c]
                 /\ \A k \in 1 .. Len(unread[c]) : unread[c][k] = Output[c][n + k]

Waits == \A c \in Client : (\A m \in 1 .. Len(fds) : fds[m] # c) => Left(c, 0)

(* From a to b the screen shows what c wrote, from the beginning.          *)
Shows(c, a, b) == /\ a <= b /\ b - a <= wrote[c]
                  /\ \A k \in 1 .. b - a : shown[a + k] = Upper(Output[c][k])

(* With c main is through: c wrote all it ever will, and it is shown.      *)
Through(c, n) == Gone(c) /\ (conn[c] # "reset" => n = wrote[c])

Turn(i, end) == /\ Shows(fds[i], end[i - 1], end[i])
                /\ Left(fds[i], end[i] - end[i - 1])
                /\ i < Len(fds) \/ main = "accept"
                     => Through(fds[i], end[i] - end[i - 1])

Turns(end) == /\ end \in [0 .. Len(fds) -> 0 .. Len(shown)]
              /\ end[0] = 0 /\ end[Len(fds)] = Len(shown)
              /\ \A i \in 1 .. Len(fds) : Turn(i, end)

ScreenInv == /\ ScreenTyped /\ Distinct /\ Reads /\ Waits
             /\ \E end : Turns(end)

LEMMA OutputType ==
  ASSUME NEW c \in Client
  PROVE  /\ Output[c] \in Seq(Char) /\ Len(Output[c]) \in Nat
         /\ \A k \in 1 .. Len(Output[c]) : Output[c][k] \in Char
<1>1. Output[c] \in Seq(Char)
  BY TtyServerAssumption DEF TtyServerAssumption
<1> QED
  BY <1>1

LEMMA UpperOfChar == \A x \in Char : Upper(x) \in Nat
BY DEF Char, Upper

LEMMA InitScreen == Init => ScreenInv
<1> SUFFICES ASSUME Init PROVE ScreenInv
  OBVIOUS
<1>1. ScreenTyped
  BY OutputType DEF Init, ScreenTyped
<1>2. Distinct /\ Reads /\ Waits
  <2>1. Distinct /\ Reads
    BY DEF Init, Distinct, Reads
  <2>2. \A c \in Client : unread[c] = << >> /\ wrote[c] = 0
    BY DEF Init
  <2>3. \A c \in Client : Left(c, 0)
    BY <2>2 DEF Left
  <2> QED
    BY <2>1, <2>3 DEF Waits
<1>3. Turns([i \in 0 .. 0 |-> 0])
  BY DEF Init, Turns
<1> QED
  BY <1>1, <1>2, <1>3 DEF ScreenInv

(* A step that leaves the screen and main alone: what is unread may be     *)
(* lost with the connection, and only a client that is open writes.        *)
Kept(c) == /\ wrote'[c] >= wrote[c]
           /\ \A n \in Nat : Left(c, n) => Left(c, n)'
           /\ Gone(c) => Gone(c)' /\ wrote'[c] = wrote[c]
           /\ conn[c] = "reset" => conn'[c] = "reset"

LEMMA TurnKept ==
  ASSUME NEW end, Turns(end), NEW i \in 1 .. Len(fds), fds \in Seq(Client), ScreenTyped,
         UNCHANGED <<fds, main, shown>>, Kept(fds[i]), wrote' \in [Client -> Nat]
  PROVE  Turn(i, end)'
<1>1. /\ Len(fds) \in Nat /\ fds[i] \in Client
      /\ end[i] \in Nat /\ end[i - 1] \in Nat
      /\ wrote[fds[i]] \in Nat /\ wrote'[fds[i]] \in Nat
  <2>1. Len(fds) \in Nat /\ fds[i] \in Client /\ Len(shown) \in Nat
    BY DEF ScreenTyped
  <2>2. i \in 0 .. Len(fds) /\ i - 1 \in 0 .. Len(fds)
    BY <2>1
  <2>3. end \in [0 .. Len(fds) -> 0 .. Len(shown)]
    BY DEF Turns
  <2>4. end[i] \in 0 .. Len(shown) /\ end[i - 1] \in 0 .. Len(shown)
    BY <2>2, <2>3
  <2>5. wrote \in [Client -> Nat]
    BY DEF ScreenTyped
  <2> QED
    BY <2>1, <2>4, <2>5
<1>2. Turn(i, end)
  BY DEF Turns
<1>3. Shows(fds[i], end[i - 1], end[i])'
  BY <1>1, <1>2 DEF Turn, Shows, Kept
<1>4. end[i] - end[i - 1] \in Nat
  BY <1>1, <1>2 DEF Turn, Shows
<1>5. Left(fds[i], end[i] - end[i - 1])'
  BY <1>2, <1>4 DEF Turn, Kept
<1>6. Through(fds[i], end[i] - end[i - 1]) => Through(fds[i], end[i] - end[i - 1])'
  BY DEF Through, Kept
<1> QED
  BY <1>2, <1>3, <1>5, <1>6 DEF Turn

LEMMA ScreenKept ==
  ASSUME KeysInv, ScreenInv, UNCHANGED <<fds, main, shown, accept_sock>>,
         \A c \in Client : Kept(c), ScreenTyped'
  PROVE  ScreenInv'
<1>1. fds \in Seq(Client)
  BY DEF KeysInv, Typed
<1>2. Distinct' /\ Reads'
  BY DEF ScreenInv, Distinct, Reads
<1>3. Waits'
  BY DEF ScreenInv, Waits, Kept
<1>4. PICK end : Turns(end)
  BY DEF ScreenInv
<1>5. ASSUME NEW i \in 1 .. Len(fds) PROVE Turn(i, end)'
  <2>0. wrote' \in [Client -> Nat] /\ ScreenTyped
    BY DEF ScreenInv, ScreenTyped
  <2>1. fds[i] \in Client
    BY <1>1
  <2>2. Kept(fds[i])
    BY <2>1
  <2> QED
    BY <1>1, <1>4, <2>0, <2>1, <2>2, TurnKept
<1>6. Turns(end)'
  BY <1>4, <1>5 DEF Turns
<1> QED
  BY <1>2, <1>3, <1>6 DEF ScreenInv

LEMMA ScreenBeside ==
  ASSUME KeysInv, ScreenInv,
         UNCHANGED <<fds, main, shown, accept_sock, wrote, unread>>,
         \A c \in Client : /\ Gone(c) => Gone(c)'
                           /\ conn[c] = "reset" => conn'[c] = "reset"
  PROVE  ScreenInv'
<1>1. ScreenTyped'
  BY DEF ScreenInv, ScreenTyped
<1>2. \A c \in Client : Kept(c)
  <2> TAKE c \in Client
  <2>1. wrote[c] \in Nat
    BY DEF ScreenInv, ScreenTyped
  <2>2. \A n \in Nat : Left(c, n) => Left(c, n)'
    BY DEF Left
  <2> QED
    BY <2>1, <2>2 DEF Kept
<1> QED
  BY <1>1, <1>2, ScreenKept

(* The connection of one client ends, and what it wrote may be lost.       *)
LEMMA ScreenEnds ==
  ASSUME KeysInv, ScreenInv, NEW d \in Client, NEW v \in {"closed", "reset"},
         UNCHANGED <<fds, main, shown, accept_sock, wrote>>,
         conn' = [conn EXCEPT ![d] = v],
         \/ conn[d] # "reset" /\ UNCHANGED unread
         \/ v = "reset" /\ unread' \in {unread, [unread EXCEPT ![d] = << >>]}
  PROVE  ScreenInv'
<1>1. conn \in [Client -> Conns] /\ unread \in [Client -> Seq(Char)]
  BY DEF KeysInv, Typed, ScreenInv, ScreenTyped
<1>2. unread' \in [Client -> Seq(Char)]
  <2>1. << >> \in Seq(Char)
    OBVIOUS
  <2> QED
    BY <1>1, <2>1
<1>3. ScreenTyped'
  BY <1>2 DEF ScreenInv, ScreenTyped
<1>4. \A c \in Client : Kept(c)
  <2> TAKE c \in Client
  <2>1. wrote[c] \in Nat
    BY DEF ScreenInv, ScreenTyped
  <2>2. /\ conn'[c] = IF c = d THEN v ELSE conn[c]
        /\ unread'[c] = unread[c] \/ (c = d /\ v = "reset" /\ unread'[c] = << >>)
    BY <1>1
  <2>3. conn[c] = "reset" => conn'[c] = "reset"
    BY <2>2
  <2>4. \A n \in Nat : Left(c, n) => Left(c, n)'
    BY <2>2, <2>3 DEF Left
  <2>5. Gone(c) => Gone(c)'
    BY <2>2 DEF Gone
  <2> QED
    BY <2>1, <2>3, <2>4, <2>5 DEF Kept
<1> QED
  BY <1>3, <1>4, ScreenKept

LEMMA SendScreen ==
  ASSUME KeysInv, ScreenInv, NEW d \in Client, Send(d) PROVE ScreenInv'
<1>1. /\ conn[d] = "open" /\ wrote[d] < Len(Output[d])
      /\ wrote' = [wrote EXCEPT ![d] = @ + 1]
      /\ unread' = [unread EXCEPT ![d] = Append(@, Output[d][wrote[d] + 1])]
      /\ UNCHANGED <<fds, main, shown, accept_sock, conn>>
  BY DEF Send, screen
<1>2. wrote[d] \in Nat /\ unread[d] \in Seq(Char) /\ Len(unread[d]) \in Nat
  BY DEF ScreenInv, ScreenTyped
<1>3. Len(Output[d]) \in Nat /\ Output[d][wrote[d] + 1] \in Char
  <2>1. wrote[d] + 1 \in 1 .. Len(Output[d])
    BY <1>1, <1>2, OutputType
  <2> QED
    BY <2>1, OutputType
<1>4. ScreenTyped'
  <2>1. wrote' \in [Client -> Nat] /\ unread' \in [Client -> Seq(Char)]
    BY <1>1, <1>2, <1>3 DEF ScreenInv, ScreenTyped
  <2>2. \A c \in Client : wrote'[c] <= Len(Output[c])
    BY <1>1, <1>2, <1>3 DEF ScreenInv, ScreenTyped
  <2> QED
    BY <1>1, <2>1, <2>2 DEF ScreenInv, ScreenTyped
<1>5. Kept(d)
  <2>1. wrote'[d] = wrote[d] + 1 /\ unread'[d] = Append(unread[d], Output[d][wrote[d] + 1])
    BY <1>1 DEF ScreenInv, ScreenTyped
  <2>2. ASSUME NEW n \in Nat, Left(d, n) PROVE Left(d, n)'
    <3>1. /\ n + Len(unread[d]) = wrote[d]
          /\ \A k \in 1 .. Len(unread[d]) : unread[d][k] = Output[d][n + k]
      BY <1>1, <2>2 DEF Left
    <3>2. /\ Len(unread'[d]) = Len(unread[d]) + 1
          /\ \A k \in 1 .. Len(unread[d]) : unread'[d][k] = unread[d][k]
          /\ unread'[d][Len(unread[d]) + 1] = Output[d][wrote[d] + 1]
      BY <1>2, <1>3, <2>1
    <3>3. n + (Len(unread[d]) + 1) = wrote[d] + 1
      BY <1>2, <3>1
    <3>4. \A k \in 1 .. Len(unread[d]) + 1 : k \in 1 .. Len(unread[d]) \/ k = Len(unread[d]) + 1
      BY <1>2
    <3>5. \A k \in 1 .. Len(unread'[d]) : unread'[d][k] = Output[d][n + k]
      BY <3>1, <3>2, <3>3, <3>4
    <3> QED
      BY <2>1, <3>2, <3>3, <3>5 DEF Left
  <2>3. ~Gone(d) /\ conn[d] # "reset"
    BY <1>1 DEF Gone
  <2> QED
    BY <1>2, <2>1, <2>2, <2>3 DEF Kept
<1>6. ASSUME NEW c \in Client, c # d PROVE Kept(c)
  <2>1. wrote'[c] = wrote[c] /\ unread'[c] = unread[c] /\ wrote[c] \in Nat
    BY <1>1, <1>6 DEF ScreenInv, ScreenTyped
  <2>2. \A n \in Nat : Left(c, n) => Left(c, n)'
    BY <1>1, <2>1 DEF Left
  <2> QED
    BY <1>1, <2>1, <2>2 DEF Kept, Gone
<1> QED
  BY <1>1, <1>4, <1>5, <1>6, ScreenKept

(* The client being served is the last one; its characters follow those of *)
(* the others.                                                             *)
LEMMA ShowScreen == ASSUME KeysInv, ScreenInv, Show PROVE ScreenInv'
<1>1. /\ main = "read" /\ unread[Peer] # << >>
      /\ shown' = Append(shown, Upper(Head(unread[Peer])))
      /\ unread' = [unread EXCEPT ![Peer] = Tail(@)]
      /\ UNCHANGED <<main, accept_sock, fds, conn, wrote>>
  BY DEF Show
<1>0. PICK d, L, u : d = Peer /\ L = Len(fds) /\ u = unread[d]
  OBVIOUS
<1>2. /\ L \in Nat /\ L > 0 /\ d = fds[L] /\ d \in Client /\ fds \in Seq(Client)
      /\ L = Len(fds) /\ d = Peer /\ u = unread[d]
  BY <1>0, <1>1, PeerIs DEF KeysInv, ScreenInv, Reads, Typed
<1>3. /\ unread \in [Client -> Seq(Char)] /\ shown \in Seq(Nat)
      /\ wrote \in [Client -> Nat]
  BY DEF ScreenInv, ScreenTyped
<1>4. /\ u \in Seq(Char) /\ u # << >> /\ Len(u) \in Nat /\ Len(u) > 0
      /\ Head(u) = u[1] /\ u[1] \in Char
      /\ Tail(u) \in Seq(Char) /\ Len(Tail(u)) = Len(u) - 1
      /\ \A k \in 1 .. Len(u) - 1 : Tail(u)[k] = u[k + 1]
  BY <1>1, <1>2, <1>3
<1>5. unread'[d] = Tail(u) /\ \A c \in Client : c # d => unread'[c] = unread[c]
  BY <1>1, <1>2, <1>3
<1>6. /\ Len(shown) \in Nat /\ Len(shown') = Len(shown) + 1
      /\ \A k \in 1 .. Len(shown) : shown'[k] = shown[k]
      /\ shown'[Len(shown) + 1] = Upper(u[1])
      /\ shown' \in Seq(Nat)
  <2>1. PICK x : x = Upper(u[1])
    OBVIOUS
  <2>2. x \in Nat /\ shown' = Append(shown, x)
    BY <1>1, <1>2, <1>4, <2>1, UpperOfChar
  <2> QED
    BY <1>3, <2>1, <2>2
<1>7. ScreenTyped'
  <2>1. unread' \in [Client -> Seq(Char)]
    BY <1>1, <1>2, <1>3, <1>4
  <2> QED
    BY <1>1, <1>6, <2>1 DEF ScreenInv, ScreenTyped
<1>8. Distinct' /\ Reads'
  BY <1>1 DEF ScreenInv, Distinct, Reads
<1>9. Waits'
  <2> SUFFICES ASSUME NEW c \in Client, \A m \in 1 .. Len(fds) : fds[m] # c
               PROVE  Left(c, 0)'
    BY <1>1 DEF Waits
  <2>1. c # d
    BY <1>2
  <2>2. Left(c, 0)
    BY DEF ScreenInv, Waits
  <2>3. unread'[c] = unread[c] /\ wrote'[c] = wrote[c] /\ conn'[c] = conn[c]
    BY <1>1, <1>5, <2>1
  <2> QED
    BY <2>2, <2>3 DEF Left
<1>10. PICK end : Turns(end)
  BY DEF ScreenInv
<1>a. \A i \in 0 .. L : end[i] \in 0 .. Len(shown)
  BY <1>2, <1>10 DEF Turns
<1>b. PICK a, b : a = end[L - 1] /\ b = end[L]
  OBVIOUS
<1>c. PICK e : e = [i \in 0 .. L |-> IF i = L THEN b + 1 ELSE end[i]]
  OBVIOUS
<1>11. /\ b = Len(shown) /\ a \in Nat /\ a <= b
       /\ Turn(L, end) /\ Shows(d, a, b) /\ Left(d, b - a)
  <2>1. L \in 1 .. Len(fds) /\ L - 1 \in 0 .. L /\ L \in 0 .. L
    BY <1>2
  <2>2. Turn(L, end)
    BY <1>10, <2>1 DEF Turns
  <2>3. b = Len(shown) /\ a \in Nat
    BY <1>2, <1>6, <1>10, <1>a, <1>b, <2>1 DEF Turns
  <2>4. Shows(d, a, b) /\ Left(d, b - a)
    BY <1>2, <1>b, <2>2 DEF Turn
  <2> QED
    BY <2>2, <2>3, <2>4 DEF Shows
<1>12. /\ (b - a) + Len(u) = wrote[d]
       /\ \A k \in 1 .. Len(u) : u[k] = Output[d][(b - a) + k]
  BY <1>2, <1>4, <1>11 DEF Left
<1>13. e[L] = b + 1 /\ e[L - 1] = a /\ e[0] = 0
  BY <1>2, <1>10, <1>b, <1>c DEF Turns
<1>14. (b + 1) - a = (b - a) + 1 /\ b - a \in Nat /\ a + ((b - a) + 1) = b + 1
  BY <1>6, <1>11
<1>15. Turn(L, e)'
  <2>0. PICK m, q : m = (b - a) + 1 /\ q = b + 1
    OBVIOUS
  <2>a. q - a = m /\ m \in Nat /\ wrote[d] \in Nat /\ q \in Nat /\ a <= q /\ e[L] = q
    BY <1>2, <1>3, <1>6, <1>11, <1>13, <1>14, <2>0
  <2>1. Shows(d, a, q)'
    <3>1. m <= wrote[d]
      <4>1. \A x, y, w \in Nat : y > 0 /\ x + y = w => x + 1 <= w
        OBVIOUS
      <4> QED
        BY <1>4, <1>12, <1>14, <2>0, <2>a, <4>1
    <3>2. \A k \in 1 .. b - a : shown[a + k] = Upper(Output[d][k]) /\ a + k \in 1 .. Len(shown)
      <4>1. \A k \in 1 .. b - a : shown[a + k] = Upper(Output[d][k])
        BY <1>11 DEF Shows
      <4>2. a \in Nat /\ b \in Nat /\ b = Len(shown)
        BY <1>6, <1>11
      <4>3. \A k \in 1 .. b - a : a + k \in 1 .. b
        BY <4>2
      <4> QED
        BY <4>1, <4>2, <4>3
    <3>3. shown'[b + 1] = Upper(Output[d][(b - a) + 1])
      BY <1>4, <1>6, <1>11, <1>12
    <3>4. \A k \in 1 .. (b - a) + 1 : k \in 1 .. b - a \/ k = (b - a) + 1
      BY <1>14
    <3>5. \A k \in 1 .. (b - a) + 1 : shown'[a + k] = Upper(Output[d][k])
      BY <1>6, <1>14, <3>2, <3>3, <3>4
    <3>6. \A k \in 1 .. q - a : shown'[a + k] = Upper(Output[d][k])
      BY <2>0, <2>a, <3>5
    <3>7. q - a <= wrote'[d]
      BY <1>1, <2>a, <3>1
    <3> QED
      BY <2>a, <3>6, <3>7 DEF Shows
  <2>2. Left(d, m)'
    <3>1. ((b - a) + 1) + Len(unread'[d]) = wrote[d]
      BY <1>4, <1>5, <1>12, <1>14
    <3>3. wrote'[d] = wrote[d] /\ Len(unread'[d]) = Len(u) - 1
      BY <1>1, <1>4, <1>5
    <3>2. ASSUME NEW k \in 1 .. Len(u) - 1
          PROVE  unread'[d][k] = Output[d][((b - a) + 1) + k]
      <4>1. k + 1 \in 1 .. Len(u) /\ (b - a) + (k + 1) = ((b - a) + 1) + k
        BY <1>4, <1>14
      <4> QED
        BY <1>4, <1>5, <1>12, <4>1
    <3> QED
      BY <1>4, <2>0, <3>1, <3>2, <3>3 DEF Left
  <2>3. ~(L < Len(fds) \/ main = "accept")
    BY <1>1, <1>2
  <2> QED
    BY <1>1, <1>2, <1>13, <2>a, <2>1, <2>2, <2>3 DEF Turn
<1>16. ASSUME NEW i \in 1 .. L, i # L PROVE Turn(i, e)'
  <2>1. e[i] = end[i] /\ e[i - 1] = end[i - 1] /\ fds[i] # d /\ fds[i] \in Client
    BY <1>2, <1>16, <1>c DEF ScreenInv, Distinct
  <2>2. Turn(i, end)
    BY <1>2, <1>10 DEF Turns
  <2>3. /\ end[i] \in Nat /\ end[i] <= Len(shown) /\ end[i - 1] \in Nat
    BY <1>2, <1>6, <1>a, <1>16
  <2>4. Shows(fds[i], end[i - 1], end[i])'
    <3>1. \A k \in 1 .. end[i] - end[i - 1] : end[i - 1] + k \in 1 .. Len(shown)
      <4>1. \A x, y, n \in Nat : y <= n => \A k \in 1 .. y - x : x + k \in 1 .. n
        OBVIOUS
      <4>2. Len(shown) \in Nat
        BY <1>6
      <4> QED
        BY <2>3, <4>1, <4>2
    <3> QED
      BY <1>1, <1>6, <2>2, <3>1 DEF Turn, Shows
  <2>5. Left(fds[i], end[i] - end[i - 1])'
    <3>1. Left(fds[i], end[i] - end[i - 1])
      BY <2>2 DEF Turn
    <3>2. /\ unread'[fds[i]] = unread[fds[i]] /\ wrote'[fds[i]] = wrote[fds[i]]
          /\ conn'[fds[i]] = conn[fds[i]] /\ fds'[i] = fds[i]
      BY <1>1, <1>5, <2>1
    <3> QED
      BY <3>1, <3>2 DEF Left
  <2>6. Through(fds[i], end[i] - end[i - 1])' <=> Through(fds[i], end[i] - end[i - 1])
    BY <1>1 DEF Through, Gone
  <2> QED
    BY <1>1, <2>1, <2>2, <2>4, <2>5, <2>6 DEF Turn
<1>17. Turns(e)'
  <2>1. e \in [0 .. L -> 0 .. Len(shown')]
    BY <1>2, <1>6, <1>11, <1>a, <1>c
  <2> QED
    BY <1>1, <1>2, <1>6, <1>11, <1>13, <1>15, <1>16, <2>1 DEF Turns
<1> QED
  BY <1>7, <1>8, <1>9, <1>17 DEF ScreenInv

(* main is through with a client when nothing is unread and none will be.  *)
LEMMA EndOfReadScreen == ASSUME KeysInv, ScreenInv, EndOfRead PROVE ScreenInv'
<1>1. /\ main = "read" /\ main' = "accept" /\ unread[Peer] = << >> /\ Gone(Peer)
      /\ UNCHANGED <<accept_sock, fds, shown, conn, wrote, unread>>
  BY DEF EndOfRead, traffic
<1>2. /\ Len(fds) \in Nat /\ Len(fds) > 0 /\ Peer = fds[Len(fds)] /\ Peer \in Client
  BY <1>1, PeerIs DEF KeysInv, ScreenInv, Reads, Typed
<1>3. ScreenTyped' /\ Distinct' /\ Reads' /\ Waits'
  BY <1>1 DEF ScreenInv, ScreenTyped, Distinct, Reads, Waits, Left
<1>4. PICK end : Turns(end)
  BY DEF ScreenInv
<1>5. ASSUME NEW i \in 1 .. Len(fds) PROVE Turn(i, end)'
  <2>1. Turn(i, end)
    BY <1>4 DEF Turns
  <2>2. Through(fds[i], end[i] - end[i - 1])
    <3>1. CASE i < Len(fds)
      BY <2>1, <3>1 DEF Turn
    <3>2. CASE i = Len(fds)
      <4>1. Left(Peer, end[i] - end[i - 1])
        BY <1>2, <2>1, <3>2 DEF Turn
      <4>2. end[i] - end[i - 1] \in Int
        <5>1. Len(shown) \in Nat /\ i \in 0 .. Len(fds) /\ i - 1 \in 0 .. Len(fds)
          BY <1>2 DEF ScreenInv, ScreenTyped
        <5> QED
          BY <1>4, <5>1 DEF Turns
      <4>3. conn[Peer] # "reset" => end[i] - end[i - 1] = wrote[Peer]
        BY <1>1, <4>1, <4>2 DEF Left
      <4> QED
        BY <1>1, <1>2, <3>2, <4>3 DEF Through
    <3> QED
      BY <1>2, <3>1, <3>2
  <2>3. /\ Shows(fds[i], end[i - 1], end[i])'
        /\ Left(fds[i], end[i] - end[i - 1])'
        /\ Through(fds[i], end[i] - end[i - 1])'
    BY <1>1, <2>1, <2>2 DEF Turn, Shows, Left, Through, Gone
  <2> QED
    BY <2>3 DEF Turn
<1>6. Turns(end)'
  BY <1>1, <1>4, <1>5 DEF Turns
<1> QED
  BY <1>3, <1>6 DEF ScreenInv

LEMMA AcceptScreen == ASSUME KeysInv, ScreenInv, Accept PROVE ScreenInv'
<1>1. CASE Len(fds) < Descriptors /\ queue # << >>
  <2>0. PICK c, L : c = Head(queue) /\ L = Len(fds)
    OBVIOUS
  <2>1. /\ fds' = Append(fds, c) /\ queue' = Tail(queue) /\ main = "accept"
        /\ accept_sock' = FirstFd + L /\ main' = "read"
        /\ UNCHANGED <<shown, conn, wrote, unread>>
    BY <1>1, <2>0, TtyServerAssumption DEF Accept, traffic, keyboard, TtyServerAssumption, KeysInv, Typed
  <2>2. Len(queue) \in Nat /\ Len(queue) > 0 /\ c = queue[1] /\ c \in Client
    BY <1>1, <2>0, <2>1 DEF KeysInv, Typed
  <2>3. /\ L \in Nat /\ L = Len(fds) /\ Len(fds') = L + 1
        /\ \A m \in 1 .. L : fds'[m] = fds[m] /\ fds[m] # c
        /\ fds'[L + 1] = c
    BY <2>0, <2>1, <2>2 DEF KeysInv, Typed, Once
  <2>4. \A m \in 1 .. L + 1 : m \in 1 .. L \/ m = L + 1
    BY <2>3
  <2>5. ScreenTyped'
    BY <2>1 DEF ScreenInv, ScreenTyped
  <2>6. Distinct'
    BY <2>3, <2>4 DEF ScreenInv, Distinct
  <2>7. Reads'
    BY <2>1, <2>3 DEF Reads, FirstFd
  <2>8. Waits'
    <3> SUFFICES ASSUME NEW d \in Client, \A m \in 1 .. Len(fds') : fds'[m] # d
                 PROVE  Left(d, 0)'
      BY DEF Waits
    <3>1. \A m \in 1 .. L : m \in 1 .. L + 1
      BY <2>3
    <3>2. \A m \in 1 .. L : fds[m] # d
      BY <2>3, <3>1
    <3> QED
      BY <2>1, <3>2 DEF ScreenInv, Waits, Left
  <2>9. PICK end : Turns(end)
    BY DEF ScreenInv
  <2>a. PICK e : e = [i \in 0 .. L + 1 |-> IF i = L + 1 THEN Len(shown) ELSE end[i]]
    OBVIOUS
  <2>b. PICK z : z = Len(shown)
    OBVIOUS
  <2>10. /\ Len(shown) \in Nat /\ end[L] = Len(shown) /\ end[0] = 0
         /\ \A i \in 0 .. L : end[i] \in 0 .. Len(shown)
    <3>1. Len(shown) \in Nat
      BY DEF ScreenInv, ScreenTyped
    <3> QED
      BY <2>3, <2>9, <3>1 DEF Turns
  <2>11. /\ e[L + 1] = z /\ e[L] = z /\ e[0] = 0
         /\ e \in [0 .. L + 1 -> 0 .. Len(shown)]
    BY <2>3, <2>10, <2>a, <2>b
  <2>12. Turn(L + 1, e)'
    <3>1. Left(c, 0)
      BY <2>2, <2>3 DEF ScreenInv, Waits
    <3>2. wrote[c] \in Nat
      BY <2>2 DEF ScreenInv, ScreenTyped
    <3>3. z - z = 0 /\ (L + 1) - 1 = L /\ z \in Nat
      BY <2>3, <2>10, <2>b
    <3>4. Shows(c, z, z)'
      BY <2>1, <3>2, <3>3 DEF Shows
    <3>5. Left(c, 0)'
      BY <2>1, <3>1 DEF Left
    <3>6. ~(L + 1 < Len(fds') \/ main' = "accept")
      BY <2>1, <2>3
    <3> QED
      BY <2>3, <2>11, <3>3, <3>4, <3>5, <3>6 DEF Turn
  <2>13. ASSUME NEW i \in 1 .. L PROVE Turn(i, e)'
    <3>1. e[i] = end[i] /\ e[i - 1] = end[i - 1] /\ fds'[i] = fds[i]
      BY <2>3, <2>a
    <3>2. Turn(i, end)
      BY <2>3, <2>9 DEF Turns
    <3>3. /\ Shows(fds[i], end[i - 1], end[i])
          /\ Left(fds[i], end[i] - end[i - 1])
          /\ Through(fds[i], end[i] - end[i - 1])
      BY <2>1, <3>2 DEF Turn
    <3>4. /\ Shows(fds[i], end[i - 1], end[i])'
          /\ Left(fds[i], end[i] - end[i - 1])'
          /\ Through(fds[i], end[i] - end[i - 1])'
      BY <2>1, <2>3, <3>1, <3>3 DEF Shows, Left, Through, Gone
    <3> QED
      BY <3>1, <3>4 DEF Turn
  <2>14. Turns(e)'
    BY <2>1, <2>3, <2>4, <2>b, <2>11, <2>12, <2>13 DEF Turns
  <2> QED
    BY <2>5, <2>6, <2>7, <2>8, <2>14 DEF ScreenInv
<1>2. CASE /\ accept_sock' = 0 - 1 /\ UNCHANGED <<fds, since, queue, main>>
  <2>1. UNCHANGED <<shown, conn, wrote, unread>> /\ main = "accept"
    BY DEF Accept, traffic
  <2>2. ScreenTyped' /\ Distinct' /\ Reads' /\ Waits'
    BY <1>2, <2>1 DEF ScreenInv, ScreenTyped, Distinct, Reads, Waits, Left
  <2>3. PICK end : Turns(end)
    BY DEF ScreenInv
  <2>4. \A i \in 1 .. Len(fds) : Turn(i, end)'
    BY <1>2, <2>1, <2>3 DEF Turns, Turn, Shows, Left, Through, Gone
  <2>5. Turns(end)'
    BY <1>2, <2>1, <2>3, <2>4 DEF Turns
  <2> QED
    BY <2>2, <2>5 DEF ScreenInv
<1> QED
  BY <1>1, <1>2 DEF Accept

(* A key written to a client that has gone resets the connection.          *)
LEMMA WriteScreen == ASSUME KeysInv, ScreenInv, Write PROVE ScreenInv'
<1>1. /\ UNCHANGED <<fds, main, shown, accept_sock, wrote>>
      /\ keyb = "write" /\ server = "up"
  BY DEF Write, screen
<1>2. Peer \in Client
  BY <1>1, PeerIs DEF KeysInv, Held
<1>3. CASE UNCHANGED <<conn, unread>>
  BY <1>1, <1>3, ScreenBeside DEF Gone
<1>4. CASE /\ conn' = [conn EXCEPT ![Peer] = "reset"]
           /\ unread' \in {unread, [unread EXCEPT ![Peer] = << >>]}
  BY <1>1, <1>2, <1>4, ScreenEnds
<1> QED
  BY <1>3, <1>4 DEF Write

LEMMA ExitScreen ==
  ASSUME KeysInv, ScreenInv, NEW c \in Client, Exit(c) PROVE ScreenInv'
<1>1. conn[c] = "open" /\ UNCHANGED <<fds, main, shown, accept_sock, wrote>>
  BY DEF Exit, screen
<1>2. CASE conn' = [conn EXCEPT ![c] = "closed"] /\ UNCHANGED unread
  BY <1>1, <1>2, ScreenEnds
<1>3. CASE /\ conn' = [conn EXCEPT ![c] = "reset"]
           /\ unread' \in {unread, [unread EXCEPT ![c] = << >>]}
  BY <1>1, <1>3, ScreenEnds
<1> QED
  BY <1>2, <1>3 DEF Exit

LEMMA ConnectScreen ==
  ASSUME KeysInv, ScreenInv, NEW c \in Client, Connect(c) PROVE ScreenInv'
<1>1. /\ conn[c] = "none" /\ conn' = [conn EXCEPT ![c] = "open"]
      /\ UNCHANGED <<fds, main, shown, accept_sock, wrote, unread>>
  BY DEF Connect, screen
<1>2. \A d \in Client : conn'[d] = IF d = c THEN "open" ELSE conn[d]
  BY <1>1 DEF KeysInv, Typed
<1>3. \A d \in Client : /\ Gone(d) => Gone(d)'
                        /\ conn[d] = "reset" => conn'[d] = "reset"
  BY <1>1, <1>2 DEF Gone
<1> QED
  BY <1>1, <1>3, ScreenBeside

LEMMA NextScreen == KeysInv /\ ScreenInv /\ [Next]_vars => ScreenInv'
<1> SUFFICES ASSUME KeysInv, ScreenInv, [Next]_vars PROVE ScreenInv'
  OBVIOUS
<1>1. CASE Accept
  BY <1>1, AcceptScreen
<1>2. CASE Show
  BY <1>2, ShowScreen
<1>3. CASE EndOfRead
  BY <1>3, EndOfReadScreen
<1>4. CASE Press \/ Escape \/ Test \/ UNCHANGED vars
  <2>1. UNCHANGED <<fds, main, shown, accept_sock, wrote, unread, conn>>
    BY <1>4 DEF Press, Escape, Test, vars, screen, traffic
  <2> QED
    BY <2>1, ScreenBeside DEF Gone
<1>5. CASE Write
  BY <1>5, WriteScreen
<1>6. ASSUME NEW c \in Client, Connect(c) PROVE ScreenInv'
  BY <1>6, ConnectScreen
<1>7. ASSUME NEW c \in Client, Exit(c) PROVE ScreenInv'
  BY <1>7, ExitScreen
<1>8. ASSUME NEW c \in Client, Send(c) PROVE ScreenInv'
  BY <1>8, SendScreen
<1>9. ASSUME NEW c \in Client, Receive(c) PROVE ScreenInv'
  <2>1. UNCHANGED <<fds, main, shown, accept_sock, wrote, unread, conn>>
    BY <1>9 DEF Receive, screen
  <2> QED
    BY <2>1, ScreenBeside DEF Gone
<1> QED
  BY <1>1, <1>2, <1>3, <1>4, <1>5, <1>6, <1>7, <1>8, <1>9
     DEF Next, Main, Keyboard, Clients

LEMMA ScreenInvShows == KeysInv /\ ScreenInv => ScreenInOrder
<1> SUFFICES ASSUME KeysInv, ScreenInv PROVE ScreenInOrder
  OBVIOUS
<1>1. PICK end : Turns(end)
  BY DEF ScreenInv
<1>2. \A i \in 1 .. Len(fds) :
         /\ Shows(fds[i], end[i - 1], end[i])
         /\ i < Len(fds) => Through(fds[i], end[i] - end[i - 1])
  BY <1>1 DEF Turns, Turn
<1> QED
  BY <1>1, <1>2 DEF Turns, ScreenInOrder, Shows, Through

(* main in ttysrv/tty.c: the screen shows what the clients wrote in upper  *)
(* case, one client after the other, as they were accepted, all of it when *)
(* another was accepted after, unless the connection was reset.            *)
THEOREM OutputInOrder == Spec => []ScreenInOrder
<1>1. KeysInv /\ [Next]_vars => KeysInv'
  BY NextKeys
<1>2. KeysInv /\ ScreenInv /\ [Next]_vars => ScreenInv'
  BY NextScreen
<1>3. KeysInv /\ ScreenInv => ScreenInOrder
  BY ScreenInvShows
<1> QED
  BY InitKeys, InitScreen, <1>1, <1>2, <1>3, PTL DEF Spec
=============================================================================
