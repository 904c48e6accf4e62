-------------------------- MODULE ManageSieveServer --------------------------
(***************************************************************************)
(* The life of a ManageSieve server and its connections: Server.Serve,     *)
(* Server.Close (managesieve/server/server.go), and for every accepted     *)
(* connection the goroutine Conn.serve with its command handlers           *)
(* (managesieve/server/conn.go), which Server.Close interrupts from        *)
(* outside with Conn.Close.                                                *)
(*                                                                         *)
(* A step is one access to what goroutines share: the server's fields      *)
(* under its mutex, and the fields state and session of a connection,      *)
(* which its goroutine writes without the mutex that Close takes. Command  *)
(* arguments, replies and the SASL exchange's contents are left out; the   *)
(* storage sessions the backend opens are external and kept as identities  *)
(* with a count of how often they were closed.                             *)
(***************************************************************************)
EXTENDS Naturals, FiniteSets

CONSTANTS
    Listeners,     \* listeners Serve may be called with
    Conns,         \* connections that may be accepted
    Sessions,      \* storage sessions the backend may open
    NoConn,
    NoSession,
    HasTLS,        \* Options.TLSConfig is set
    InsecureAuth,  \* Options.InsecureAuth
    MaxPipelined   \* bound of the model: commands one read brings into the buffer

ASSUME ServerAssumption ==
    /\ NoConn \notin Conns
    /\ NoSession \notin Sessions
    /\ HasTLS \in BOOLEAN
    /\ InsecureAuth \in BOOLEAN
    /\ MaxPipelined \in Nat \ {0}

VARIABLES
    \* Server
    closed, listeners, conns, wg,
    loop,       \* where each call of Serve is
    lnOpen,     \* the listener has not been closed
    closer,     \* where the call of Server.Close is
    closeLs,    \* its copies of listeners and conns, less those it has closed
    closeCs,
    \* Conn
    pc,         \* where the goroutine of each connection is
    state,      \* Conn.state
    session,    \* Conn.session
    fresh,      \* the local sess of Authorize
    tls,        \* Conn.conn is a *tls.Conn
    inbuf,      \* commands read into Conn.br and not yet handled
    netOpen,    \* the network connection has not been closed by this side
    closedBy,   \* who found Conn.closed unset in Conn.Close
    closeAt,    \* how far that call has come
    snap,       \* its local sess
    \* the backend's sessions
    opener,     \* the connection a session was opened for
    closes,     \* how often it was closed
    \* history
    late        \* the connection registered after Server.Close took its copy

serverVars == <<closed, listeners, conns, wg, loop, lnOpen, closer, closeLs, closeCs>>
closeVars  == <<netOpen, closedBy, closeAt, snap>>
sessVars   == <<opener, closes>>
connVars   == <<pc, state, session, fresh, tls, inbuf>>
vars == <<serverVars, connVars, closeVars, sessVars, late>>

CloseSession(s) ==
    closes' = IF s = NoSession THEN closes ELSE [closes EXCEPT ![s] = @ + 1]

-----------------------------------------------------------------------------
(* Server.Serve, one call per listener.                                    *)

\* Mutant: Serve does not look at closed.
ServeUnchecked(l) ==
    /\ loop[l] = "idle"
    /\ loop' = [loop EXCEPT ![l] = "listed"]
    /\ listeners' = listeners \cup {l}
    /\ UNCHANGED <<closed, conns, wg, lnOpen, closer, closeLs, closeCs>>
    /\ UNCHANGED <<connVars, closeVars, sessVars, late>>

\* Under the mutex: refused once the server is closed.
ServeList(l) ==
    /\ loop[l] = "idle"
    /\ loop' = [loop EXCEPT ![l] = IF closed THEN "returned" ELSE "listed"]
    /\ listeners' = IF closed THEN listeners ELSE listeners \cup {l}
    /\ UNCHANGED <<closed, conns, wg, lnOpen, closer, closeLs, closeCs>>
    /\ UNCHANGED <<connVars, closeVars, sessVars, late>>

\* wg.Add(1), after the mutex was released.
ServeAdd(l) ==
    /\ loop[l] = "listed"
    /\ loop' = [loop EXCEPT ![l] = "accepting"]
    /\ wg' = wg + 1
    /\ UNCHANGED <<closed, listeners, conns, lnOpen, closer, closeLs, closeCs>>
    /\ UNCHANGED <<connVars, closeVars, sessVars, late>>

\* Accept returns a connection, of TLS where the listener is one of
\* ListenAndServeTLS; its goroutine starts.
Accept(l, c) ==
    /\ loop[l] = "accepting"
    /\ lnOpen[l]
    /\ pc[c] = "none"
    /\ pc' = [pc EXCEPT ![c] = "accepted"]
    /\ netOpen' = [netOpen EXCEPT ![c] = TRUE]
    /\ \E t \in {FALSE, HasTLS} : tls' = [tls EXCEPT ![c] = t]
    /\ UNCHANGED <<state, session, fresh, inbuf, closedBy, closeAt, snap>>
    /\ UNCHANGED <<serverVars, sessVars, late>>

\* Mutant: wg.Done is missing.
AcceptFailsHolding(l) ==
    /\ loop[l] = "accepting"
    /\ loop' = [loop EXCEPT ![l] = "returning"]
    /\ UNCHANGED <<closed, listeners, conns, wg, lnOpen, closer, closeLs, closeCs>>
    /\ UNCHANGED <<connVars, closeVars, sessVars, late>>

\* Accept fails, as it must on a closed listener; the deferred wg.Done runs.
AcceptFails(l) ==
    /\ loop[l] = "accepting"
    /\ loop' = [loop EXCEPT ![l] = "returning"]
    /\ wg' = wg - 1
    /\ UNCHANGED <<closed, listeners, conns, lnOpen, closer, closeLs, closeCs>>
    /\ UNCHANGED <<connVars, closeVars, sessVars, late>>

\* The deferred removal of the listener.
ServeUnlist(l) ==
    /\ loop[l] = "returning"
    /\ loop' = [loop EXCEPT ![l] = "returned"]
    /\ listeners' = listeners \ {l}
    /\ UNCHANGED <<closed, conns, wg, lnOpen, closer, closeLs, closeCs>>
    /\ UNCHANGED <<connVars, closeVars, sessVars, late>>

-----------------------------------------------------------------------------
(* Conn.Close, called by the connection's goroutine and by Server.Close.   *)

\* The part under the connection's mutex, for the caller that finds closed
\* unset: state becomes Logout and the session is copied.
CloseMark(c, who) ==
    /\ closedBy[c] = "none"
    /\ closedBy' = [closedBy EXCEPT ![c] = who]
    /\ closeAt' = [closeAt EXCEPT ![c] = "session"]
    /\ state' = [state EXCEPT ![c] = "logout"]
    /\ snap' = [snap EXCEPT ![c] = session[c]]

\* sess.Close() on the copy.
CloseCopied(c) ==
    /\ closeAt[c] = "session"
    /\ closeAt' = [closeAt EXCEPT ![c] = "conn"]
    /\ CloseSession(snap[c])
    /\ UNCHANGED <<netOpen, closedBy, snap, opener>>
    /\ UNCHANGED <<serverVars, connVars, late>>

\* conn.Close(); the caller goes on.
CloseNet(c) ==
    /\ closeAt[c] = "conn"
    /\ closeAt' = [closeAt EXCEPT ![c] = "done"]
    /\ netOpen' = [netOpen EXCEPT ![c] = FALSE]
    /\ closeCs' = IF closedBy[c] = "server" THEN closeCs \ {c} ELSE closeCs
    /\ pc' = IF closedBy[c] = "serve" THEN [pc EXCEPT ![c] = "exited"] ELSE pc
    /\ UNCHANGED <<closed, listeners, conns, wg, loop, lnOpen, closer, closeLs>>
    /\ UNCHANGED <<state, session, fresh, tls, inbuf, closedBy, snap>>
    /\ UNCHANGED <<sessVars, late>>

-----------------------------------------------------------------------------
(* Server.Close.                                                           *)

\* Under the mutex.
CloseBegin ==
    /\ closer = "idle"
    /\ closed' = TRUE
    /\ closer' = "listeners"
    /\ closeLs' = listeners
    /\ closeCs' = conns
    /\ UNCHANGED <<listeners, conns, wg, loop, lnOpen>>
    /\ UNCHANGED <<connVars, closeVars, sessVars, late>>

CloseListener(l) ==
    /\ closer = "listeners"
    /\ l \in closeLs
    /\ lnOpen' = [lnOpen EXCEPT ![l] = FALSE]
    /\ closeLs' = closeLs \ {l}
    /\ UNCHANGED <<closed, listeners, conns, wg, loop, closer, closeCs>>
    /\ UNCHANGED <<connVars, closeVars, sessVars, late>>

CloseListenersDone ==
    /\ closer = "listeners"
    /\ closeLs = {}
    /\ closer' = "conns"
    /\ UNCHANGED <<closed, listeners, conns, wg, loop, lnOpen, closeLs, closeCs>>
    /\ UNCHANGED <<connVars, closeVars, sessVars, late>>

\* The call of Conn.Close on the next connection: it returns at once where the
\* connection's own goroutine has begun to close it.
CloseConn(c) ==
    /\ closer = "conns"
    /\ c \in closeCs
    /\ \A d \in closeCs : closedBy[d] # "server"
    /\ \/ /\ CloseMark(c, "server")
          /\ UNCHANGED closeCs
       \/ /\ closedBy[c] # "none"
          /\ closeCs' = closeCs \ {c}
          /\ UNCHANGED <<closedBy, closeAt, state, snap>>
    /\ UNCHANGED <<closed, listeners, conns, wg, loop, lnOpen, closer, closeLs>>
    /\ UNCHANGED <<pc, session, fresh, tls, inbuf, netOpen>>
    /\ UNCHANGED <<sessVars, late>>

CloseConnsDone ==
    /\ closer = "conns"
    /\ closeCs = {}
    /\ closer' = "wait"
    /\ UNCHANGED <<closed, listeners, conns, wg, loop, lnOpen, closeLs, closeCs>>
    /\ UNCHANGED <<connVars, closeVars, sessVars, late>>

\* wg.Wait().
CloseWait ==
    /\ closer = "wait"
    /\ wg = 0
    /\ closer' = "returned"
    /\ UNCHANGED <<closed, listeners, conns, wg, loop, lnOpen, closeLs, closeCs>>
    /\ UNCHANGED <<connVars, closeVars, sessVars, late>>

-----------------------------------------------------------------------------
(* Conn.serve: registration, greeting, reading commands, and the deferred  *)
(* removal and Close.                                                      *)

\* The goroutine goes on at a place p and touches nothing that is shared.
Goto(c, p) ==
    /\ pc' = [pc EXCEPT ![c] = p]
    /\ UNCHANGED <<serverVars, closeVars, sessVars, late>>

\* Mutant: the connection is not entered into Server.conns.
RegisterForgotten(c) ==
    /\ pc[c] = "accepted"
    /\ pc' = [pc EXCEPT ![c] = "greeting"]
    /\ late' = [late EXCEPT ![c] = closed]
    /\ UNCHANGED <<state, session, fresh, tls, inbuf>>
    /\ UNCHANGED <<serverVars, closeVars, sessVars>>

\* Under the server's mutex; closed is not looked at.
Register(c) ==
    /\ pc[c] = "accepted"
    /\ pc' = [pc EXCEPT ![c] = "greeting"]
    /\ conns' = conns \cup {c}
    /\ late' = [late EXCEPT ![c] = closed]
    /\ UNCHANGED <<closed, listeners, wg, loop, lnOpen, closer, closeLs, closeCs>>
    /\ UNCHANGED <<state, session, fresh, tls, inbuf>>
    /\ UNCHANGED <<closeVars, sessVars>>

\* The greeting is written, or cannot be.
Greet(c) ==
    /\ pc[c] = "greeting"
    /\ \/ netOpen[c] /\ Goto(c, "reading")
       \/ Goto(c, "leaving")
    /\ UNCHANGED <<state, session, fresh, tls, inbuf>>

\* The client's next commands arrive in one read.
Receive(c) ==
    /\ pc[c] = "reading"
    /\ netOpen[c]
    /\ inbuf[c] = 0
    /\ \E n \in 1 .. MaxPipelined : inbuf' = [inbuf EXCEPT ![c] = n]
    /\ Goto(c, "reading")
    /\ UNCHANGED <<state, session, fresh, tls>>

\* Mutant: a read from a closed connection is tried again.
ReadRetries(c) ==
    /\ pc[c] = "reading"
    /\ netOpen[c]
    /\ Goto(c, "leaving")
    /\ UNCHANGED <<state, session, fresh, tls, inbuf>>

\* ReadCommand fails: timeout, end of input, closed connection, syntax error.
ReadFails(c) ==
    /\ pc[c] = "reading"
    /\ Goto(c, "leaving")
    /\ UNCHANGED <<state, session, fresh, tls, inbuf>>

\* Mutant: serve goes on after LOGOUT.
NextCommandAlways(c) ==
    /\ pc[c] = "replied"
    /\ Goto(c, "reading")
    /\ UNCHANGED <<state, session, fresh, tls, inbuf>>

\* The end of the loop's body, after a handler returned nil or an error that
\* is no *managesieve.Error: state is looked at. A handler whose I/O timed out
\* ends the loop whatever the state.
NextCommand(c) ==
    /\ pc[c] = "replied"
    /\ \/ state[c] # "logout" /\ Goto(c, "reading")
       \/ Goto(c, "leaving")
    /\ UNCHANGED <<state, session, fresh, tls, inbuf>>

\* The deferred function: out of Server.conns first.
Unregister(c) ==
    /\ pc[c] = "leaving"
    /\ pc' = [pc EXCEPT ![c] = "closing"]
    /\ conns' = conns \ {c}
    /\ UNCHANGED <<closed, listeners, wg, loop, lnOpen, closer, closeLs, closeCs>>
    /\ UNCHANGED <<state, session, fresh, tls, inbuf>>
    /\ UNCHANGED <<closeVars, sessVars, late>>

\* Then Conn.Close, which does nothing where Server.Close came first.
DeferredClose(c) ==
    /\ pc[c] = "closing"
    /\ \/ /\ CloseMark(c, "serve")
          /\ UNCHANGED pc
       \/ /\ closedBy[c] = "server"
          /\ pc' = [pc EXCEPT ![c] = "exited"]
          /\ UNCHANGED <<closedBy, closeAt, state, snap>>
    /\ UNCHANGED <<session, fresh, tls, inbuf, netOpen>>
    /\ UNCHANGED <<serverVars, sessVars, late>>

-----------------------------------------------------------------------------
(* Conn.handleCommand. Each command takes one from the buffer.             *)

Handle(c) ==
    /\ pc[c] = "reading"
    /\ inbuf[c] > 0
    /\ inbuf' = [inbuf EXCEPT ![c] = @ - 1]

\* A handler returned a *managesieve.Error before it changed anything: wrong
\* arguments, unknown command, refused by the gate or in this state. serve
\* continues without looking at state.
Refuse(c) ==
    /\ Handle(c)
    /\ Goto(c, "reading")
    /\ UNCHANGED <<state, session, fresh, tls>>

\* CAPABILITY and NOOP.
Answer(c) ==
    /\ Handle(c)
    /\ Goto(c, "replied")
    /\ UNCHANGED <<state, session, fresh, tls>>

Logout(c) ==
    /\ Handle(c)
    /\ state' = [state EXCEPT ![c] = "logout"]
    /\ Goto(c, "replied")
    /\ UNCHANGED <<session, fresh, tls>>

StartTLS(c) ==
    /\ Handle(c)
    /\ state[c] = "notAuth"
    /\ HasTLS
    /\ Goto(c, "handshake")
    /\ UNCHANGED <<state, session, fresh, tls>>

\* The handshake succeeds, and what was read before it is dropped with the old
\* reader; or it fails and the connection stays as it was.
Handshake(c) ==
    /\ pc[c] = "handshake"
    /\ Goto(c, "replied")
    /\ \/ /\ netOpen[c]
          /\ tls' = [tls EXCEPT ![c] = TRUE]
          /\ inbuf' = [inbuf EXCEPT ![c] = 0]
       \/ UNCHANGED <<tls, inbuf>>
    /\ UNCHANGED <<state, session, fresh>>

\* Mutant: credentials are accepted without TLS.
AuthenticatePlaintext(c) ==
    /\ Handle(c)
    /\ state[c] = "notAuth"
    /\ Goto(c, "sasl")
    /\ UNCHANGED <<state, session, fresh, tls>>

Authenticate(c) ==
    /\ Handle(c)
    /\ state[c] = "notAuth"
    /\ tls[c] \/ InsecureAuth
    /\ Goto(c, "sasl")
    /\ UNCHANGED <<state, session, fresh, tls>>

\* The exchange fails: cancelled or malformed (*managesieve.Error), refused by
\* the mechanism or the backend, or timed out. The lines it read are gone.
SaslFails(c) ==
    /\ pc[c] = "sasl"
    /\ \E p \in {"reading", "replied"} : Goto(c, p)
    /\ \E n \in 0 .. inbuf[c] : inbuf' = [inbuf EXCEPT ![c] = n]
    /\ UNCHANGED <<state, session, fresh, tls>>

\* Authorize: the backend opens a session.
AuthorizeOpen(c, s) ==
    /\ pc[c] = "sasl"
    /\ opener[s] = NoConn
    /\ opener' = [opener EXCEPT ![s] = c]
    /\ fresh' = [fresh EXCEPT ![c] = s]
    /\ pc' = [pc EXCEPT ![c] = "opened"]
    /\ \E n \in 0 .. inbuf[c] : inbuf' = [inbuf EXCEPT ![c] = n]
    /\ UNCHANGED <<state, session, tls, closes>>
    /\ UNCHANGED <<serverVars, closeVars, late>>

\* Mutant: the session is installed first, and then closed as the old one.
InstallThenClose(c) ==
    /\ pc[c] = "opened"
    /\ CloseSession(fresh[c])
    /\ session' = [session EXCEPT ![c] = fresh[c]]
    /\ fresh' = [fresh EXCEPT ![c] = NoSession]
    /\ pc' = [pc EXCEPT ![c] = "installed"]
    /\ UNCHANGED <<state, tls, inbuf, opener>>
    /\ UNCHANGED <<serverVars, closeVars, late>>

\* Authorize: the old session is closed and replaced, without the mutex.
AuthorizeInstall(c) ==
    /\ pc[c] = "opened"
    /\ CloseSession(session[c])
    /\ session' = [session EXCEPT ![c] = fresh[c]]
    /\ fresh' = [fresh EXCEPT ![c] = NoSession]
    /\ pc' = [pc EXCEPT ![c] = "installed"]
    /\ UNCHANGED <<state, tls, inbuf, opener>>
    /\ UNCHANGED <<serverVars, closeVars, late>>

\* Authorize: state is written, whatever Conn.Close has made of it.
AuthorizeState(c) ==
    /\ pc[c] = "installed"
    /\ state' = [state EXCEPT ![c] = "auth"]
    /\ Goto(c, "replied")
    /\ UNCHANGED <<session, fresh, tls, inbuf>>

\* A command on scripts passes the gate.
ScriptCommand(c) ==
    /\ Handle(c)
    /\ state[c] = "auth"
    /\ Goto(c, "using")
    /\ UNCHANGED <<state, session, fresh, tls>>

\* The call on c.session, which answers, refuses or fails.
UseSession(c) ==
    /\ pc[c] = "using"
    /\ \E p \in {"reading", "replied"} : Goto(c, p)
    /\ UNCHANGED <<state, session, fresh, tls, inbuf>>

\* UNAUTHENTICATE passes the gate.
Unauthenticate(c) ==
    /\ Handle(c)
    /\ state[c] = "auth"
    /\ Goto(c, "dropping")
    /\ UNCHANGED <<state, session, fresh, tls>>

UnauthenticateClose(c) ==
    /\ pc[c] = "dropping"
    /\ CloseSession(session[c])
    /\ pc' = [pc EXCEPT ![c] = "dropped"]
    /\ UNCHANGED <<state, session, fresh, tls, inbuf, opener>>
    /\ UNCHANGED <<serverVars, closeVars, late>>

\* Mutant: c.session keeps the closed session.
UnauthenticateKeeps(c) ==
    /\ pc[c] = "dropped"
    /\ Goto(c, "cleared")
    /\ UNCHANGED <<state, session, fresh, tls, inbuf>>

UnauthenticateClear(c) ==
    /\ pc[c] = "dropped"
    /\ session' = [session EXCEPT ![c] = NoSession]
    /\ Goto(c, "cleared")
    /\ UNCHANGED <<state, fresh, tls, inbuf>>

UnauthenticateState(c) ==
    /\ pc[c] = "cleared"
    /\ state' = [state EXCEPT ![c] = "notAuth"]
    /\ Goto(c, "replied")
    /\ UNCHANGED <<session, fresh, tls, inbuf>>

-----------------------------------------------------------------------------
Init ==
    /\ closed = FALSE
    /\ listeners = {}
    /\ conns = {}
    /\ wg = 0
    /\ loop = [l \in Listeners |-> "idle"]
    /\ lnOpen = [l \in Listeners |-> TRUE]
    /\ closer = "idle"
    /\ closeLs = {}
    /\ closeCs = {}
    /\ pc = [c \in Conns |-> "none"]
    /\ state = [c \in Conns |-> "notAuth"]
    /\ session = [c \in Conns |-> NoSession]
    /\ fresh = [c \in Conns |-> NoSession]
    /\ tls = [c \in Conns |-> FALSE]
    /\ inbuf = [c \in Conns |-> 0]
    /\ netOpen = [c \in Conns |-> FALSE]
    /\ closedBy = [c \in Conns |-> "none"]
    /\ closeAt = [c \in Conns |-> "none"]
    /\ snap = [c \in Conns |-> NoSession]
    /\ opener = [s \in Sessions |-> NoConn]
    /\ closes = [s \in Sessions |-> 0]
    /\ late = [c \in Conns |-> FALSE]

\* A step of a call of Serve other than accepting a connection.
ServeStep(l) ==
    ServeList(l) \/ ServeAdd(l) \/ AcceptFails(l) \/ ServeUnlist(l)

\* A step of the call of Server.Close.
CloserStep ==
    \/ CloseBegin
    \/ \E l \in Listeners : CloseListener(l)
    \/ CloseListenersDone
    \/ \E c \in Conns : CloseConn(c)
    \/ CloseConnsDone
    \/ CloseWait

\* A step of the Conn.Close that found the connection open.
ClosingStep(c) == CloseCopied(c) \/ CloseNet(c)

\* A step of a connection's goroutine.
ConnStep(c) ==
    \/ Register(c) \/ Greet(c)
    \/ Receive(c) \/ ReadFails(c) \/ NextCommand(c)
    \/ Unregister(c) \/ DeferredClose(c)
    \/ Refuse(c) \/ Answer(c) \/ Logout(c)
    \/ StartTLS(c) \/ Handshake(c)
    \/ Authenticate(c) \/ SaslFails(c)
    \/ \E s \in Sessions : AuthorizeOpen(c, s)
    \/ AuthorizeInstall(c) \/ AuthorizeState(c)
    \/ ScriptCommand(c) \/ UseSession(c)
    \/ Unauthenticate(c) \/ UnauthenticateClose(c)
    \/ UnauthenticateClear(c) \/ UnauthenticateState(c)

Next ==
    \/ \E l \in Listeners : ServeStep(l)
    \/ \E l \in Listeners, c \in Conns : Accept(l, c)
    \/ CloserStep
    \/ \E c \in Conns : ClosingStep(c) \/ ConnStep(c)

Spec == Init /\ [][Next]_vars

\* Goroutines that can run do run: Server.Close once it was called, every
\* Conn.Close under way, every connection (New sets AuthTimeout and
\* IdleTimeout, so a read or write that gets nowhere fails in the end), and a
\* Serve whose listener was closed.
FairSpec ==
    /\ Spec
    /\ WF_vars(closer # "idle" /\ CloserStep)
    /\ \A c \in Conns : WF_vars(ClosingStep(c)) /\ WF_vars(ConnStep(c))
    /\ \A l \in Listeners : WF_vars(loop[l] # "idle" /\ ~lnOpen[l] /\ ServeStep(l))

-----------------------------------------------------------------------------
Places ==
    {"none", "accepted", "greeting", "reading", "replied", "handshake", "sasl",
     "opened", "installed", "using", "dropping", "dropped", "cleared",
     "leaving", "closing", "exited"}

\* The goroutine is between its registration and its deferred function.
Serving(c) == pc[c] \notin {"none", "accepted", "closing", "exited"}

\* The variables keep their types; wg in particular is never negative, which
\* would panic.
TypeOK ==
    /\ closed \in BOOLEAN
    /\ listeners \subseteq Listeners /\ conns \subseteq Conns
    /\ wg \in Nat
    /\ loop \in [Listeners -> {"idle", "listed", "accepting", "returning", "returned"}]
    /\ lnOpen \in [Listeners -> BOOLEAN]
    /\ closer \in {"idle", "listeners", "conns", "wait", "returned"}
    /\ closeLs \subseteq Listeners /\ closeCs \subseteq Conns
    /\ pc \in [Conns -> Places]
    /\ state \in [Conns -> {"notAuth", "auth", "logout"}]
    /\ session \in [Conns -> Sessions \cup {NoSession}]
    /\ fresh \in [Conns -> Sessions \cup {NoSession}]
    /\ tls \in [Conns -> BOOLEAN]
    /\ inbuf \in [Conns -> Nat]
    /\ netOpen \in [Conns -> BOOLEAN]
    /\ closedBy \in [Conns -> {"none", "serve", "server"}]
    /\ closeAt \in [Conns -> {"none", "session", "conn", "done"}]
    /\ snap \in [Conns -> Sessions \cup {NoSession}]
    /\ opener \in [Sessions -> Conns \cup {NoConn}]
    /\ closes \in [Sessions -> Nat]
    /\ late \in [Conns -> BOOLEAN]

\* A connection is authenticated only over TLS or where InsecureAuth allows
\* plaintext, through every order of STARTTLS, AUTHENTICATE, UNAUTHENTICATE
\* and failed handshakes.
AuthenticatedProtected ==
    \A c \in Conns : state[c] = "auth" => tls[c] \/ InsecureAuth

\* A handler that passed the "Authenticate first" gate finds a session in
\* c.session, never a nil Storage, although Server.Close may write state between
\* the gate and the call, and Authorize and UNAUTHENTICATE write session and
\* state in separate steps. That session was opened for this connection and is
\* open; only Server.Close can close it under the handler's feet.
UsesOwnOpenSession ==
    \A c \in Conns : pc[c] = "using" =>
        \E s \in Sessions :
            /\ session[c] = s
            /\ opener[s] = c
            /\ closes[s] = 0 \/ closedBy[c] = "server"

\* A connection that ended without Server.Close has closed each session that
\* was opened for it exactly once, and its network connection. (Server.Close
\* racing Authorize or UNAUTHENTICATE may leave one open or close one twice.)
EndedCleanly ==
    \A c \in Conns :
        pc[c] = "exited" /\ closedBy[c] = "serve" =>
            /\ ~netOpen[c]
            /\ \A s \in Sessions : opener[s] = c => closes[s] = 1

\* After LOGOUT no further command of the client is handled; a goroutine that
\* handles commands in state Logout is one Server.Close has just closed.
LogoutStops ==
    \A c \in Conns :
        state[c] = "logout" /\ pc[c] \notin {"replied", "leaving", "closing", "exited"}
            => closedBy[c] = "server"

\* Once Server.Close has returned, a connection still being served has been
\* closed, or entered Server.conns only after Close copied it.
SurvivorsRegisteredLate ==
    closer = "returned" =>
        \A c \in Conns : Serving(c) => closedBy[c] # "none" \/ late[c]

\* Once Server.Close has gone through the listeners no Serve can accept from
\* an open one, not even a Serve that entered its listener just before Close
\* and has yet to call wg.Add.
NoAcceptAfterClose ==
    closer \in {"conns", "wait", "returned"} =>
        \A l \in Listeners : loop[l] \in {"listed", "accepting"} => ~lnOpen[l]

\* Server.Close, once begun, returns: no connection can hold it up, and every
\* Serve it waits for ends.
CloseReturns == closer = "listeners" ~> closer = "returned"

\* The goroutine of a connection that Server.Close closes ends, although it may
\* first handle commands it had already read, and may write state back to
\* Authenticated after Close had set it to Logout.
ClosedConnEnds ==
    \A c \in Conns : closedBy[c] = "server" ~> pc[c] = "exited"
=============================================================================
