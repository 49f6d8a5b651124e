-------------------------- MODULE SurfaceTransport --------------------------
(***************************************************************************)
(* The authenticated local transport of the surface protocol               *)
(* (protocol/transport.rs) and the boot of the core that serves it         *)
(* (core-runtime/bin/modbit-core.rs).                                      *)
(*                                                                         *)
(* A boot prints its secret on the channel of the desktop that started it, *)
(* binds the socket path (unlinking whatever is there, the file of a live  *)
(* core too) and serves one thread per connection.  A client proves that   *)
(* it holds the secret over both nonces and its version.                   *)
(***************************************************************************)
EXTENDS Naturals, Sequences

CONSTANTS Clients,      \* processes that connect
          Major,        \* Major[c]: the protocol major a client speaks
          ServerMajor,  \* PROTOCOL_MAJOR
          Pinned,       \* MODBIT_BOOT_SECRET is set: every boot has the same secret
          Sizes,        \* sizes of payloads
          MaxFrame,     \* MAX_FRAME_BYTES
          MaxBoots,     \* bound: boots of a core
          MaxCalls,     \* bound: requests a client sends
          MaxConns      \* bound: connections, one nonce each

VARIABLES core,     \* per boot: how far it is, and its exec daemon
          path,     \* the boot whose socket the file at the path is; 0: no file
          boot,     \* the newest boot line the desktop has read
          conn,     \* per client: both ends of its connection
          asked,    \* per client: requests written in full on this connection
          got,      \* per client: answers received on this connection
          calls,    \* per client: requests sent so far
          done,     \* history: requests handled
          nonces    \* random nonces drawn so far

wireVars == <<core, path, boot, conn, asked, got, calls, done, nonces>>

Boots == 1..MaxBoots
Secret(b) == IF Pinned THEN 1 ELSE b
\* Nothing proves what a nonce of another handshake proved.
Proof(secret, nonce, major) == [secret |-> secret, nonce |-> nonce, major |-> major]
NoConn == [at |-> "none", to |-> 0, nonce |-> 0, in |-> <<>>, out |-> <<>>,
           thread |-> "none", due |-> <<>>, held |-> 0, readonly |-> FALSE]

Init ==
  /\ core = [b \in Boots |-> [at |-> "off", execd |-> "none"]]
  /\ path = 0
  /\ boot = [id |-> 0, secret |-> 0]
  /\ conn = [c \in Clients |-> NoConn]
  /\ asked = [c \in Clients |-> <<>>]
  /\ got = [c \in Clients |-> <<>>]
  /\ calls = [c \in Clients |-> 0]
  /\ done = {}
  /\ nonces = 0

-----------------------------------------------------------------------------
(* Boot                                                                    *)

Started(b) == core[b].at # "off"

\* main: the store opens or the process exits; without MODBIT_EXECD_ADDR an
\* exec daemon is spawned and its boot line is awaited.
Boot(b) ==
  /\ core[b].at = "off" /\ \A a \in 1..(b-1) : Started(a)
  /\ \E at \in {"exited", "execd"} :
       core' = [core EXCEPT ![b].at = at]
  /\ UNCHANGED <<path, boot, conn, asked, got, calls, done, nonces>>

\* spawn_embedded_execd: no binary, a failed spawn or a malformed line leave the
\* core without a broker (shell.run fails closed); it boots all the same.
ExecdUp(b, line) ==
  /\ core[b].at = "execd"
  /\ core' = [core EXCEPT ![b] = [at |-> "bind", execd |-> line]]
  /\ UNCHANGED <<path, boot, conn, asked, got, calls, done, nonces>>

\* A secret that is not 64 hex characters, a fleet journal or an HTTP address
\* that fails, and a failed bind end the boot.
Fatal(b) ==
  /\ core[b].at = "bind"
  /\ core' = [core EXCEPT ![b].at = "exited"]
  /\ UNCHANGED <<path, boot, conn, asked, got, calls, done, nonces>>

Bind(b) ==
  /\ core[b].at = "bind"
  /\ core' = [core EXCEPT ![b].at = "line"]
  /\ path' = b
  /\ UNCHANGED <<boot, conn, asked, got, calls, done, nonces>>

\* The boot line and `ready`; a desktop that stopped reading is tolerated.
Announce(b, read) ==
  /\ core[b].at = "line"
  /\ core' = [core EXCEPT ![b].at = "serving"]
  /\ boot' = IF read THEN [id |-> b, secret |-> Secret(b)] ELSE boot
  /\ UNCHANGED <<path, conn, asked, got, calls, done, nonces>>

\* A kill: the listener and every stream close, the socket file stays, and so
\* does the exec daemon, whose handle was leaked.
Kill(b) ==
  /\ core[b].at \in {"line", "serving"}
  /\ core' = [core EXCEPT ![b].at = "exited"]
  /\ conn' = [c \in Clients |-> IF conn[c].to = b THEN [conn[c] EXCEPT !.thread = "closed"]
                                ELSE conn[c]]
  /\ UNCHANGED <<path, boot, asked, got, calls, done, nonces>>

-----------------------------------------------------------------------------
(* Handshake                                                               *)

\* Stream::connect reaches the listener the file belongs to (its backlog takes
\* the stream before accept does); the thread draws a nonce and sends Challenge.
Connect(c) ==
  /\ nonces < MaxConns
  /\ conn[c].at = "none" /\ path # 0 /\ core[path].at \in {"line", "serving"}
  /\ nonces' = nonces + 1
  /\ conn' = [conn EXCEPT ![c] = [NoConn EXCEPT !.at = "hello", !.to = path,
                                                !.nonce = nonces + 1, !.thread = "challenged"]]
  /\ asked' = [asked EXCEPT ![c] = <<>>]
  /\ got' = [got EXCEPT ![c] = <<>>]
  /\ UNCHANGED <<core, path, boot, calls, done>>

\* connect_with_version: the proof is made with the secret of the newest boot
\* line the client has, whichever core answers the path by now.
Hello(c) ==
  /\ conn[c].at = "hello" /\ conn[c].thread = "challenged"
  /\ conn' = [conn EXCEPT ![c].at = "auth", ![c].held = boot.secret,
                          ![c].in = <<Proof(boot.secret, conn[c].nonce, Major[c])>>]
  /\ UNCHANGED <<core, path, boot, asked, got, calls, done, nonces>>

\* Mutant: the proof is not compared.
VerifiedNot(c, hello) == TRUE

\* The server makes the proof itself, from its own nonce and the client's version.
Verified(c, hello) == hello = Proof(Secret(conn[c].to), conn[c].nonce, hello.major)

\* handshake_stream: a bad proof is answered with ok = FALSE and the stream is
\* closed; another major is flagged read_only, which `serve` does not look at.
Verify(c) ==
  /\ conn[c].thread = "challenged" /\ conn[c].in # <<>>
  /\ LET hello == Head(conn[c].in)
         ok    == Verified(c, hello)
     IN  conn' = [conn EXCEPT ![c].in = Tail(@),
                    ![c].out = <<[ok |-> ok, readonly |-> hello.major # ServerMajor]>>,
                    ![c].thread = IF ok THEN "read" ELSE "closed"]
  /\ UNCHANGED <<core, path, boot, asked, got, calls, done, nonces>>

AuthResult(c) ==
  /\ conn[c].at = "auth" /\ conn[c].out # <<>>
  /\ LET r == Head(conn[c].out)
     IN  IF r.ok THEN conn' = [conn EXCEPT ![c].at = "up", ![c].out = Tail(conn[c].out),
                                           ![c].readonly = r.readonly]
         ELSE conn' = [conn EXCEPT ![c] = NoConn]
  /\ UNCHANGED <<core, path, boot, asked, got, calls, done, nonces>>

-----------------------------------------------------------------------------
(* Frames                                                                  *)

Fits(size) == size <= MaxFrame

\* Connection::send: an oversized frame is refused before a byte is written.
Send(c, size) ==
  /\ conn[c].at = "up" /\ conn[c].thread # "closed"
  /\ calls[c] < MaxCalls /\ Fits(size)
  /\ calls' = [calls EXCEPT ![c] = @ + 1]
  /\ LET k == <<c, calls[c] + 1>>
     IN  /\ asked' = [asked EXCEPT ![c] = Append(@, k)]
         /\ conn' = [conn EXCEPT ![c].in = Append(@, [call |-> k])]
  /\ UNCHANGED <<core, path, boot, got, done, nonces>>

\* serve: the thread reads one frame, the handler takes effect ...
Handle(c, size) ==
  /\ conn[c].thread = "read" /\ conn[c].in # <<>>
  /\ LET k == Head(conn[c].in).call
     IN  /\ done' = done \cup {[call |-> k, to |-> conn[c].to, held |-> conn[c].held,
                                readonly |-> Major[c] # ServerMajor]}
         /\ conn' = [conn EXCEPT ![c].in = Tail(@), ![c].thread = "write",
                                 ![c].due = <<k, size>>]
  /\ UNCHANGED <<core, path, boot, asked, got, calls, nonces>>

\* ... and the answer is written; one that does not fit ends the connection.
Write(c) ==
  /\ conn[c].thread = "write"
  /\ LET k == conn[c].due[1]
         fits == Fits(conn[c].due[2])
     IN  conn' = [conn EXCEPT
           ![c].thread = IF fits THEN "read" ELSE "closed",
           ![c].out = IF fits THEN Append(@, k) ELSE @]
  /\ UNCHANGED <<core, path, boot, asked, got, calls, done, nonces>>

Receive(c) ==
  /\ conn[c].at = "up" /\ conn[c].out # <<>>
  /\ got' = [got EXCEPT ![c] = Append(@, Head(conn[c].out))]
  /\ conn' = [conn EXCEPT ![c].out = Tail(@)]
  /\ UNCHANGED <<core, path, boot, asked, calls, done, nonces>>

\* A read on a stream that ended is "peer closed mid-frame", before a length
\* prefix too: the client gives the connection up and may connect again.
PeerClosed(c) ==
  /\ conn[c].at \in {"hello", "auth", "up"} /\ conn[c].thread = "closed" /\ conn[c].out = <<>>
  /\ conn' = [conn EXCEPT ![c] = NoConn]
  /\ UNCHANGED <<core, path, boot, asked, got, calls, done, nonces>>

\* The client goes away, between frames or inside one; frames it wrote in full
\* are still in the socket, and the thread serves them before it sees the end.
Leave(c) ==
  /\ conn[c].at = "up" /\ conn[c].in # <<>>
  /\ conn' = [conn EXCEPT ![c].at = "left"]
  /\ UNCHANGED <<core, path, boot, asked, got, calls, done, nonces>>

Gone(c) ==
  /\ conn[c].at = "left" /\ conn[c].in = <<>>
  /\ conn[c].thread \in {"read", "closed"}
  /\ conn' = [conn EXCEPT ![c] = NoConn]
  /\ UNCHANGED <<core, path, boot, asked, got, calls, done, nonces>>

Next ==
  \/ \E b \in Boots : \/ Boot(b) \/ Fatal(b) \/ Bind(b) \/ Kill(b)
                      \/ \E l \in {"up", "none"} : ExecdUp(b, l)
                      \/ \E r \in BOOLEAN : Announce(b, r)
  \/ \E c \in Clients :
       \/ Connect(c) \/ Hello(c) \/ Verify(c) \/ AuthResult(c)
       \/ \E s \in Sizes : Send(c, s) \/ Handle(c, s)
       \/ Write(c) \/ Receive(c) \/ PeerClosed(c) \/ Leave(c) \/ Gone(c)

WireSpec == Init /\ [][Next]_wireVars

-----------------------------------------------------------------------------
(* Properties                                                              *)

\* What is handled was sent by a client that held the secret of the very boot
\* that handled it, whatever cores and clients of earlier boots are around.
HandledWasProved == \A d \in done : d.held = Secret(d.to)

\* The i-th answer of a connection answers its i-th request, after the handler
\* ran it: no answer is lost, doubled or taken for that of another request.
AnswersInOrder ==
  \A c \in Clients : \A i \in DOMAIN got[c] :
    /\ i <= Len(asked[c]) /\ got[c][i] = asked[c][i]
    /\ \E d \in done : d.call = got[c][i]

\* A request is handled once, by one core.
HandledOnce == \A d, e \in done : d.call = e.call => d = e

\* The three together, about transport.rs and the boot in modbit-core.rs.
TransportSound == HandledWasProved /\ AnswersInOrder /\ HandledOnce

\* transport.rs:13-15 and the `read_only` flag: on a connection of another major
\* nothing is mutated.
ReadOnlyIsHonoured == \A d \in done : ~d.readonly

=============================================================================
