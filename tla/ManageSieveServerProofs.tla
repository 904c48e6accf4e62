----------------------- MODULE ManageSieveServerProofs -----------------------
(***************************************************************************)
(* Proofs, for any number of listeners, connections and sessions, of the   *)
(* safety properties of ManageSieveServer.                                 *)
(***************************************************************************)
EXTENDS ManageSieveServer, FiniteSetTheorems, TLAPS

(***************************************************************************)
(* The inductive invariant: what the wait group counts, where everyone is, *)
(* what a connection's fields are there, and the account of the sessions,  *)
(* beside the invariants that are inductive with these.                    *)
(***************************************************************************)
Accepting == {l \in Listeners : loop[l] = "accepting"}

\* The wait group counts the calls of Serve that accept.
WgCounts == IsFiniteSet(Accepting) /\ wg = Cardinality(Accepting)

\* Where the server, its copies and the connections' goroutines are.
PlacesAgree ==
    /\ closer # "idle" => closed
    /\ \A l \in Listeners :
           loop[l] \in {"listed", "accepting"} =>
               /\ l \in listeners
               /\ closer = "listeners" => l \in closeLs \/ ~lnOpen[l]
    /\ closer \in {"wait", "returned"} => closeCs = {}
    /\ \A c \in Conns :
           /\ c \in conns <=> Serving(c)
           /\ c \in closeCs => pc[c] \notin {"none", "accepted"}
           /\ Serving(c) /\ closer # "idle" =>
                  c \in closeCs \/ closedBy[c] # "none" \/ late[c]
           /\ closedBy[c] = "none" <=> closeAt[c] = "none"
           /\ closedBy[c] = "serve" => pc[c] \in {"closing", "exited"}
           /\ pc[c] \in {"none", "accepted"} => closedBy[c] = "none"
           /\ pc[c] = "exited" => closedBy[c] # "none"
           /\ closedBy[c] = "serve" => (pc[c] = "exited" <=> closeAt[c] = "done")
           /\ closeAt[c] = "done" => ~netOpen[c]

\* What state, session and fresh are at each place of the goroutine.
StateAgrees ==
    \A c \in Conns :
        /\ pc[c] \in {"none", "accepted"} => state[c] = "notAuth"
        /\ state[c] = "notAuth" /\ pc[c] # "installed" => session[c] = NoSession
        /\ pc[c] \in {"sasl", "opened", "cleared"} => session[c] = NoSession
        /\ pc[c] \in {"installed", "using", "dropping", "dropped"} =>
               session[c] # NoSession
        /\ state[c] = "auth" /\ pc[c] # "cleared" => session[c] # NoSession
        /\ fresh[c] # NoSession <=> pc[c] = "opened"
        /\ pc[c] \in {"sasl", "opened", "installed"} => tls[c] \/ InsecureAuth

\* c still has to close s.
Held(c, s) ==
    \/ s = fresh[c]
    \/ s = session[c] /\ pc[c] # "dropped" /\ closeAt[c] \in {"none", "session"}

\* A session that was opened is closed once or held by its connection, unless
\* Server.Close interfered.
SessionsCounted ==
    /\ \A s \in Sessions : opener[s] = NoConn => closes[s] = 0
    /\ \A c \in Conns :
           /\ session[c] # NoSession => opener[session[c]] = c
           /\ fresh[c] # NoSession => opener[fresh[c]] = c
           /\ snap[c] # NoSession => opener[snap[c]] = c
           /\ closedBy[c] = "serve" => snap[c] = session[c]
           /\ closedBy[c] # "server" =>
                  \A s \in Sessions :
                      opener[s] = c => closes[s] = IF Held(c, s) THEN 0 ELSE 1

-----------------------------------------------------------------------------
\* Every step keeps the types; wg stays a number because it counts.
LEMMA TypeStep == TypeOK /\ WgCounts /\ [Next]_vars => TypeOK'
  <1> SUFFICES ASSUME TypeOK, WgCounts, [Next]_vars PROVE TypeOK'
    OBVIOUS
  <1> USE ServerAssumption DEF TypeOK, Places, vars, serverVars, connVars,
      closeVars, sessVars
  <1>1. ASSUME NEW l \in Listeners, ServeList(l) PROVE TypeOK'
    BY <1>1 DEF ServeList
  <1>2. ASSUME NEW l \in Listeners, ServeAdd(l) PROVE TypeOK'
    BY <1>2 DEF ServeAdd
  <1>3. ASSUME NEW l \in Listeners, AcceptFails(l) PROVE TypeOK'
    <2>1. l \in Accepting
      BY <1>3 DEF AcceptFails, Accepting
    <2>2. wg - 1 \in Nat
      BY <2>1, FS_EmptySet, FS_CardinalityType DEF WgCounts
    <2> QED
      BY <1>3, <2>2 DEF AcceptFails
  <1>4. ASSUME NEW l \in Listeners, ServeUnlist(l) PROVE TypeOK'
    BY <1>4 DEF ServeUnlist
  <1>5. ASSUME NEW l \in Listeners, NEW c \in Conns, Accept(l, c)
        PROVE  TypeOK'
    <2>1. tls' \in [Conns -> BOOLEAN]
      <3>1. PICK t \in {FALSE, HasTLS} : tls' = [tls EXCEPT ![c] = t]
        BY <1>5, Zenon DEF Accept
      <3> QED
        BY <3>1, Zenon
    <2>2. netOpen' \in [Conns -> BOOLEAN]
      BY <1>5 DEF Accept
    <2> QED
      BY <1>5, <2>1, <2>2 DEF Accept
  <1>6. CASE CloseBegin
    BY <1>6 DEF CloseBegin
  <1>7. CASE CloseListenersDone
    BY <1>7 DEF CloseListenersDone
  <1>8. ASSUME NEW l \in Listeners, CloseListener(l) PROVE TypeOK'
    BY <1>8 DEF CloseListener
  <1>9. ASSUME NEW c \in Conns, CloseConn(c) PROVE TypeOK'
    BY <1>9 DEF CloseConn, CloseMark
  <1>10. CASE CloseConnsDone \/ CloseWait
    BY <1>10 DEF CloseConnsDone, CloseWait
  <1>11. ASSUME NEW c \in Conns, CloseCopied(c) PROVE TypeOK'
    BY <1>11 DEF CloseCopied, CloseSession
  <1>12. ASSUME NEW c \in Conns, CloseNet(c) PROVE TypeOK'
    BY <1>12 DEF CloseNet
  <1>13. ASSUME NEW c \in Conns, Register(c) \/ Greet(c) PROVE TypeOK'
    BY <1>13 DEF Register, Greet, Goto
  <1>14. ASSUME NEW c \in Conns, Receive(c) \/ ReadFails(c) \/ NextCommand(c)
         PROVE  TypeOK'
    BY <1>14 DEF Receive, ReadFails, NextCommand, Goto
  <1>15. ASSUME NEW c \in Conns, Unregister(c) \/ DeferredClose(c)
         PROVE  TypeOK'
    <2>1. CASE Unregister(c)
      BY <2>1 DEF Unregister
    <2>2. CASE DeferredClose(c)
      BY <2>2 DEF DeferredClose, CloseMark
    <2> QED
      BY <1>15, <2>1, <2>2, Zenon
  <1>16. ASSUME NEW c \in Conns, Refuse(c) \/ Answer(c) \/ Logout(c)
         PROVE  TypeOK'
    BY <1>16 DEF Refuse, Answer, Logout, Handle, Goto
  <1>17. ASSUME NEW c \in Conns, StartTLS(c) PROVE TypeOK'
    BY <1>17 DEF StartTLS, Handle, Goto
  <1>18. ASSUME NEW c \in Conns, Handshake(c) PROVE TypeOK'
    <2>1. tls' \in [Conns -> BOOLEAN]
      BY <1>18, Zenon DEF Handshake
    <2>2. inbuf' \in [Conns -> Nat]
      BY <1>18 DEF Handshake
    <2> QED
      BY <1>18, <2>1, <2>2, Zenon DEF Handshake, Goto
  <1>19. ASSUME NEW c \in Conns, Authenticate(c) \/ SaslFails(c) PROVE TypeOK'
    BY <1>19 DEF Authenticate, SaslFails, Handle, Goto
  <1>20. ASSUME NEW c \in Conns, NEW s \in Sessions, AuthorizeOpen(c, s)
         PROVE  TypeOK'
    BY <1>20 DEF AuthorizeOpen
  <1>21. ASSUME NEW c \in Conns, AuthorizeInstall(c) \/ AuthorizeState(c)
         PROVE  TypeOK'
    BY <1>21 DEF AuthorizeInstall, AuthorizeState, CloseSession, Goto
  <1>22. ASSUME NEW c \in Conns, ScriptCommand(c) \/ UseSession(c)
         PROVE  TypeOK'
    BY <1>22 DEF ScriptCommand, UseSession, Handle, Goto
  <1>23. ASSUME NEW c \in Conns, Unauthenticate(c) \/ UnauthenticateClose(c)
                \/ UnauthenticateClear(c) \/ UnauthenticateState(c)
         PROVE  TypeOK'
    BY <1>23 DEF Unauthenticate, UnauthenticateClose, UnauthenticateClear,
        UnauthenticateState, Handle, Goto, CloseSession
  <1>24. CASE UNCHANGED vars
    BY <1>24
  <1> QED
    BY <1>1, <1>2, <1>3, <1>4, <1>5, <1>6, <1>7, <1>8, <1>9, <1>10, <1>11, <1>12,
        <1>13, <1>14, <1>15, <1>16, <1>17, <1>18, <1>19, <1>20, <1>21, <1>22, <1>23,
        <1>24, Zenon
    DEF Next, ServeStep, CloserStep, ClosingStep, ConnStep

\* Every step keeps wg the number of calls of Serve that accept.
LEMMA WgStep == TypeOK /\ WgCounts /\ [Next]_vars => WgCounts'
  <1> SUFFICES ASSUME TypeOK, WgCounts, [Next]_vars PROVE WgCounts'
    OBVIOUS
  <1>1. ASSUME NEW l \in Listeners, ServeAdd(l) PROVE WgCounts'
    <2>1. l \notin Accepting /\ Accepting' = Accepting \cup {l}
      BY <1>1 DEF ServeAdd, Accepting, TypeOK
    <2> QED
      BY <1>1, <2>1, FS_AddElement DEF ServeAdd, WgCounts
  <1>2. ASSUME NEW l \in Listeners, AcceptFails(l) PROVE WgCounts'
    <2>1. l \in Accepting /\ Accepting' = Accepting \ {l}
      BY <1>2 DEF AcceptFails, Accepting, TypeOK
    <2> QED
      BY <1>2, <2>1, FS_RemoveElement DEF AcceptFails, WgCounts
  <1>3. ASSUME NEW l \in Listeners, ServeList(l) \/ ServeUnlist(l) PROVE WgCounts'
    <2>1. Accepting' = Accepting
      BY <1>3 DEF ServeList, ServeUnlist, Accepting, TypeOK
    <2> QED
      BY <1>3, <2>1 DEF ServeList, ServeUnlist, WgCounts
  <1>4. CASE UNCHANGED <<loop, wg>>
    BY <1>4 DEF WgCounts, Accepting
  <1>5. ASSUME NEW l \in Listeners, NEW c \in Conns, Accept(l, c)
        PROVE  UNCHANGED <<loop, wg>>
    BY <1>5 DEF Accept, serverVars
  <1>6. CASE CloserStep
    <2>1. UNCHANGED <<loop, wg>>
      BY <1>6
      DEF CloserStep, CloseBegin, CloseListener, CloseListenersDone, CloseConn,
          CloseConnsDone, CloseWait
    <2> QED
      BY <1>4, <2>1
  <1>7. ASSUME NEW c \in Conns, ClosingStep(c) \/ ConnStep(c) PROVE UNCHANGED <<loop, wg>>
    BY <1>7, Zenon
    DEF ClosingStep, ConnStep, CloseCopied, CloseNet, Register, Greet, Receive,
        ReadFails, NextCommand, Unregister, DeferredClose, Refuse, Answer, Logout,
        StartTLS, Handshake, Authenticate, SaslFails, AuthorizeOpen,
        AuthorizeInstall, AuthorizeState, ScriptCommand, UseSession, Unauthenticate,
        UnauthenticateClose, UnauthenticateClear, UnauthenticateState, Goto, Handle,
        serverVars
  <1>8. CASE UNCHANGED vars
    BY <1>4, <1>8 DEF vars, serverVars
  <1> QED
    BY <1>1, <1>2, <1>3, <1>4, <1>5, <1>6, <1>7, <1>8 DEF Next, ServeStep

\* Every step keeps the places in agreement.
LEMMA PlacesStep == TypeOK /\ PlacesAgree /\ [Next]_vars => PlacesAgree'
  <1> SUFFICES ASSUME TypeOK, PlacesAgree, [Next]_vars PROVE PlacesAgree'
    OBVIOUS
  <1> USE DEF TypeOK, PlacesAgree, Places, Serving, serverVars,
      connVars, closeVars, sessVars
  <1>1. ASSUME NEW l \in Listeners, ServeList(l) \/ ServeAdd(l) \/ AcceptFails(l)
               \/ ServeUnlist(l)
        PROVE  PlacesAgree'
    BY <1>1 DEF ServeList, ServeAdd, AcceptFails, ServeUnlist
  <1>2. ASSUME NEW l \in Listeners, NEW c \in Conns, Accept(l, c)
        PROVE  PlacesAgree'
    BY <1>2 DEF Accept
  <1>3. CASE CloseBegin \/ CloseListenersDone
    BY <1>3 DEF CloseBegin, CloseListenersDone
  <1>4. ASSUME NEW l \in Listeners, CloseListener(l) PROVE PlacesAgree'
    BY <1>4 DEF CloseListener
  <1>5. ASSUME NEW c \in Conns, CloseConn(c) PROVE PlacesAgree'
    BY <1>5 DEF CloseConn, CloseMark
  <1>6. CASE CloseConnsDone \/ CloseWait
    BY <1>6 DEF CloseConnsDone, CloseWait
  <1>7. ASSUME NEW c \in Conns, CloseCopied(c) \/ CloseNet(c)
        PROVE  PlacesAgree'
    BY <1>7 DEF CloseCopied, CloseNet, CloseSession
  <1>8. ASSUME NEW c \in Conns, Register(c) \/ Greet(c) PROVE PlacesAgree'
    BY <1>8 DEF Register, Greet, Goto
  <1>9. ASSUME NEW c \in Conns, Receive(c) \/ ReadFails(c) \/ NextCommand(c)
        PROVE  PlacesAgree'
    BY <1>9 DEF Receive, ReadFails, NextCommand, Goto
  <1>10. ASSUME NEW c \in Conns, Unregister(c) \/ DeferredClose(c)
         PROVE  PlacesAgree'
    BY <1>10 DEF Unregister, DeferredClose, CloseMark
  <1>11. ASSUME NEW c \in Conns, Refuse(c) \/ Answer(c) \/ Logout(c)
         PROVE  PlacesAgree'
    BY <1>11 DEF Refuse, Answer, Logout, Handle, Goto
  <1>12. ASSUME NEW c \in Conns, StartTLS(c) \/ Handshake(c)
         PROVE  PlacesAgree'
    BY <1>12 DEF StartTLS, Handshake, Handle, Goto
  <1>13. ASSUME NEW c \in Conns, Authenticate(c) \/ SaslFails(c)
         PROVE  PlacesAgree'
    BY <1>13 DEF Authenticate, SaslFails, Handle, Goto
  <1>14. ASSUME NEW c \in Conns, NEW s \in Sessions, AuthorizeOpen(c, s)
         PROVE  PlacesAgree'
    BY <1>14 DEF AuthorizeOpen
  <1>15. ASSUME NEW c \in Conns, AuthorizeInstall(c) \/ AuthorizeState(c)
         PROVE  PlacesAgree'
    BY <1>15 DEF AuthorizeInstall, AuthorizeState, CloseSession, Goto
  <1>16. ASSUME NEW c \in Conns, ScriptCommand(c) \/ UseSession(c)
         PROVE  PlacesAgree'
    BY <1>16 DEF ScriptCommand, UseSession, Handle, Goto
  <1>17. ASSUME NEW c \in Conns, Unauthenticate(c) \/ UnauthenticateClose(c)
                \/ UnauthenticateClear(c) \/ UnauthenticateState(c)
         PROVE  PlacesAgree'
    BY <1>17 DEF Unauthenticate, UnauthenticateClose, UnauthenticateClear,
        UnauthenticateState, Handle, Goto, CloseSession
  <1>18. CASE UNCHANGED vars
    BY <1>18 DEF vars
  <1> QED
    BY <1>1, <1>2, <1>3, <1>4, <1>5, <1>6, <1>7, <1>8, <1>9, <1>10, <1>11, <1>12,
        <1>13, <1>14, <1>15, <1>16, <1>17, <1>18, Zenon
    DEF Next, ServeStep, CloserStep, ClosingStep, ConnStep

\* From here on Zenon proves every leaf that does not cite SMT.
USE Zenon

\* Every step keeps what a connection's fields are at each place.
LEMMA StateStep ==
    TypeOK /\ PlacesAgree /\ StateAgrees /\ AuthenticatedProtected /\ [Next]_vars
        => StateAgrees'
  <1> SUFFICES ASSUME TypeOK, PlacesAgree, StateAgrees, AuthenticatedProtected,
                      [Next]_vars
               PROVE  StateAgrees'
    OBVIOUS
  <1> /\ pc \in [Conns -> Places]
      /\ state \in [Conns -> {"notAuth", "auth", "logout"}]
      /\ session \in [Conns -> Sessions \cup {NoSession}]
      /\ fresh \in [Conns -> Sessions \cup {NoSession}]
      /\ tls \in [Conns -> BOOLEAN]
    BY DEF TypeOK
  <1> \A c \in Conns :
          /\ c \in closeCs => pc[c] \notin {"none", "accepted"}
          /\ closedBy[c] = "serve" => pc[c] \in {"closing", "exited"}
    BY DEF PlacesAgree
  <1> NoSession \notin Sessions
    BY ServerAssumption
  <1> USE DEF StateAgrees, serverVars, connVars, closeVars, sessVars
  <1>1. ASSUME NEW l \in Listeners, ServeList(l) \/ ServeAdd(l) \/ AcceptFails(l)
               \/ ServeUnlist(l)
        PROVE  StateAgrees'
    BY <1>1, SMT DEF ServeList, ServeAdd, AcceptFails, ServeUnlist
  <1>2. ASSUME NEW l \in Listeners, NEW c \in Conns, Accept(l, c)
        PROVE  StateAgrees'
    BY <1>2, SMT DEF Accept
  <1>3. CASE CloseBegin \/ CloseListenersDone
    BY <1>3 DEF CloseBegin, CloseListenersDone
  <1>4. ASSUME NEW l \in Listeners, CloseListener(l) PROVE StateAgrees'
    BY <1>4 DEF CloseListener
  <1>5. ASSUME NEW c \in Conns, CloseConn(c) PROVE StateAgrees'
    BY <1>5 DEF CloseConn, CloseMark
  <1>6. CASE CloseConnsDone \/ CloseWait
    BY <1>6, SMT DEF CloseConnsDone, CloseWait
  <1>7. ASSUME NEW c \in Conns, CloseCopied(c) \/ CloseNet(c)
        PROVE  StateAgrees'
    BY <1>7, SMT DEF CloseCopied, CloseNet, CloseSession
  <1>8. ASSUME NEW c \in Conns, Register(c) \/ Greet(c) PROVE StateAgrees'
    BY <1>8, SMT DEF Register, Greet, Goto
  <1>9. ASSUME NEW c \in Conns, Receive(c) \/ ReadFails(c) \/ NextCommand(c)
        PROVE  StateAgrees'
    BY <1>9, SMT DEF Receive, ReadFails, NextCommand, Goto
  <1>10. ASSUME NEW c \in Conns, Unregister(c) \/ DeferredClose(c)
         PROVE  StateAgrees'
    BY <1>10, SMT DEF Unregister, DeferredClose, CloseMark
  <1>11. ASSUME NEW c \in Conns, Refuse(c) \/ Answer(c) \/ Logout(c)
         PROVE  StateAgrees'
    BY <1>11, SMT DEF Refuse, Answer, Logout, Handle, Goto
  <1>12. ASSUME NEW c \in Conns, StartTLS(c) \/ Handshake(c)
         PROVE  StateAgrees'
    BY <1>12, SMT DEF StartTLS, Handshake, Handle, Goto
  <1>13. ASSUME NEW c \in Conns, Authenticate(c) \/ SaslFails(c)
         PROVE  StateAgrees'
    BY <1>13, SMT DEF Authenticate, SaslFails, Handle, Goto
  <1>14. ASSUME NEW c \in Conns, NEW s \in Sessions, AuthorizeOpen(c, s)
         PROVE  StateAgrees'
    BY <1>14 DEF AuthorizeOpen
  <1>15. ASSUME NEW c \in Conns, AuthorizeInstall(c) \/ AuthorizeState(c)
         PROVE  StateAgrees'
    BY <1>15, SMT DEF AuthorizeInstall, AuthorizeState, CloseSession, Goto
  <1>16. ASSUME NEW c \in Conns, ScriptCommand(c) \/ UseSession(c)
         PROVE  StateAgrees'
    BY <1>16, SMT DEF ScriptCommand, UseSession, Handle, Goto
  <1>17. ASSUME NEW c \in Conns, Unauthenticate(c) \/ UnauthenticateClose(c)
                \/ UnauthenticateClear(c) \/ UnauthenticateState(c)
         PROVE  StateAgrees'
    BY <1>17, SMT DEF Unauthenticate, UnauthenticateClose, UnauthenticateClear,
        UnauthenticateState, Handle, Goto, CloseSession
  <1>18. CASE UNCHANGED vars
    BY <1>18 DEF vars
  <1> QED
    BY <1>1, <1>2, <1>3, <1>4, <1>5, <1>6, <1>7, <1>8, <1>9, <1>10, <1>11, <1>12,
        <1>13, <1>14, <1>15, <1>16, <1>17, <1>18
    DEF Next, ServeStep, CloserStep, ClosingStep, ConnStep

-----------------------------------------------------------------------------
\* The inductive invariant.
IInv ==
    /\ TypeOK
    /\ WgCounts
    /\ PlacesAgree
    /\ StateAgrees
    /\ AuthenticatedProtected
    /\ LogoutStops
    /\ NoAcceptAfterClose
    /\ SessionsCounted

-----------------------------------------------------------------------------
\* No step authenticates a connection that is not protected.
LEMMA ProtectedStep ==
    TypeOK /\ StateAgrees /\ AuthenticatedProtected /\ [Next]_vars
        => AuthenticatedProtected'
  <1> SUFFICES ASSUME TypeOK, StateAgrees, AuthenticatedProtected, [Next]_vars
               PROVE  AuthenticatedProtected'
    OBVIOUS
  <1> /\ pc \in [Conns -> Places]
      /\ state \in [Conns -> {"notAuth", "auth", "logout"}]
      /\ tls \in [Conns -> BOOLEAN]
    BY DEF TypeOK
  <1> \A c \in Conns :
          /\ pc[c] = "none" => state[c] = "notAuth"
          /\ pc[c] \in {"sasl", "opened", "installed"} => tls[c] \/ InsecureAuth
    BY DEF StateAgrees
  <1> USE DEF AuthenticatedProtected, serverVars, connVars, closeVars, sessVars
  <1>1. ASSUME NEW l \in Listeners, ServeList(l) \/ ServeAdd(l) \/ AcceptFails(l)
               \/ ServeUnlist(l)
        PROVE  AuthenticatedProtected'
    BY <1>1 DEF ServeList, ServeAdd, AcceptFails, ServeUnlist
  <1>2. ASSUME NEW l \in Listeners, NEW c \in Conns, Accept(l, c)
        PROVE  AuthenticatedProtected'
    BY <1>2 DEF Accept
  <1>3. CASE CloseBegin \/ CloseListenersDone
    BY <1>3 DEF CloseBegin, CloseListenersDone
  <1>4. ASSUME NEW l \in Listeners, CloseListener(l)
        PROVE  AuthenticatedProtected'
    BY <1>4 DEF CloseListener
  <1>5. ASSUME NEW c \in Conns, CloseConn(c) PROVE AuthenticatedProtected'
    BY <1>5 DEF CloseConn, CloseMark
  <1>6. CASE CloseConnsDone \/ CloseWait
    BY <1>6 DEF CloseConnsDone, CloseWait
  <1>7. ASSUME NEW c \in Conns, CloseCopied(c) \/ CloseNet(c)
        PROVE  AuthenticatedProtected'
    BY <1>7 DEF CloseCopied, CloseNet, CloseSession
  <1>8. ASSUME NEW c \in Conns, Register(c) \/ Greet(c)
        PROVE  AuthenticatedProtected'
    BY <1>8 DEF Register, Greet, Goto
  <1>9. ASSUME NEW c \in Conns, Receive(c) \/ ReadFails(c) \/ NextCommand(c)
        PROVE  AuthenticatedProtected'
    BY <1>9 DEF Receive, ReadFails, NextCommand, Goto
  <1>10. ASSUME NEW c \in Conns, Unregister(c) \/ DeferredClose(c)
         PROVE  AuthenticatedProtected'
    BY <1>10 DEF Unregister, DeferredClose, CloseMark
  <1>11. ASSUME NEW c \in Conns, Refuse(c) \/ Answer(c) \/ Logout(c)
         PROVE  AuthenticatedProtected'
    BY <1>11 DEF Refuse, Answer, Logout, Handle, Goto
  <1>12. ASSUME NEW c \in Conns, StartTLS(c) \/ Handshake(c)
         PROVE  AuthenticatedProtected'
    BY <1>12 DEF StartTLS, Handshake, Handle, Goto
  <1>13. ASSUME NEW c \in Conns, Authenticate(c) \/ SaslFails(c)
         PROVE  AuthenticatedProtected'
    BY <1>13 DEF Authenticate, SaslFails, Handle, Goto
  <1>14. ASSUME NEW c \in Conns, NEW s \in Sessions, AuthorizeOpen(c, s)
         PROVE  AuthenticatedProtected'
    BY <1>14 DEF AuthorizeOpen
  <1>15. ASSUME NEW c \in Conns, AuthorizeInstall(c) \/ AuthorizeState(c)
         PROVE  AuthenticatedProtected'
    BY <1>15 DEF AuthorizeInstall, AuthorizeState, CloseSession, Goto
  <1>16. ASSUME NEW c \in Conns, ScriptCommand(c) \/ UseSession(c)
         PROVE  AuthenticatedProtected'
    BY <1>16 DEF ScriptCommand, UseSession, Handle, Goto
  <1>17. ASSUME NEW c \in Conns, Unauthenticate(c) \/ UnauthenticateClose(c)
                \/ UnauthenticateClear(c) \/ UnauthenticateState(c)
         PROVE  AuthenticatedProtected'
    BY <1>17 DEF Unauthenticate, UnauthenticateClose, UnauthenticateClear,
        UnauthenticateState, Handle, Goto, CloseSession
  <1>18. CASE UNCHANGED vars
    BY <1>18 DEF vars
  <1> QED
    BY <1>1, <1>2, <1>3, <1>4, <1>5, <1>6, <1>7, <1>8, <1>9, <1>10, <1>11, <1>12,
        <1>13, <1>14, <1>15, <1>16, <1>17, <1>18
    DEF Next, ServeStep, CloserStep, ClosingStep, ConnStep

\* No step but one of Server.Close has a connection serve on in state Logout.
LEMMA LogoutStep == TypeOK /\ LogoutStops /\ [Next]_vars => LogoutStops'
  <1> SUFFICES ASSUME TypeOK, LogoutStops, [Next]_vars PROVE LogoutStops'
    OBVIOUS
  <1> /\ pc \in [Conns -> Places]
      /\ state \in [Conns -> {"notAuth", "auth", "logout"}]
      /\ closedBy \in [Conns -> {"none", "serve", "server"}]
    BY DEF TypeOK
  <1> USE DEF LogoutStops, serverVars, connVars, closeVars, sessVars
  <1>1. ASSUME NEW l \in Listeners, ServeList(l) \/ ServeAdd(l) \/ AcceptFails(l)
               \/ ServeUnlist(l)
        PROVE  LogoutStops'
    BY <1>1 DEF ServeList, ServeAdd, AcceptFails, ServeUnlist
  <1>2. ASSUME NEW l \in Listeners, NEW c \in Conns, Accept(l, c)
        PROVE  LogoutStops'
    BY <1>2 DEF Accept
  <1>3. CASE CloseBegin \/ CloseListenersDone
    BY <1>3 DEF CloseBegin, CloseListenersDone
  <1>4. ASSUME NEW l \in Listeners, CloseListener(l) PROVE LogoutStops'
    BY <1>4 DEF CloseListener
  <1>5. ASSUME NEW c \in Conns, CloseConn(c) PROVE LogoutStops'
    BY <1>5 DEF CloseConn, CloseMark
  <1>6. CASE CloseConnsDone \/ CloseWait
    BY <1>6 DEF CloseConnsDone, CloseWait
  <1>7. ASSUME NEW c \in Conns, CloseCopied(c) \/ CloseNet(c)
        PROVE  LogoutStops'
    BY <1>7 DEF CloseCopied, CloseNet, CloseSession
  <1>8. ASSUME NEW c \in Conns, Register(c) \/ Greet(c) PROVE LogoutStops'
    BY <1>8 DEF Register, Greet, Goto
  <1>9. ASSUME NEW c \in Conns, Receive(c) \/ ReadFails(c) \/ NextCommand(c)
        PROVE  LogoutStops'
    BY <1>9 DEF Receive, ReadFails, NextCommand, Goto
  <1>10. ASSUME NEW c \in Conns, Unregister(c) \/ DeferredClose(c)
         PROVE  LogoutStops'
    BY <1>10 DEF Unregister, DeferredClose, CloseMark
  <1>11. ASSUME NEW c \in Conns, Refuse(c) \/ Answer(c) \/ Logout(c)
         PROVE  LogoutStops'
    BY <1>11 DEF Refuse, Answer, Logout, Handle, Goto
  <1>12. ASSUME NEW c \in Conns, StartTLS(c) \/ Handshake(c)
         PROVE  LogoutStops'
    BY <1>12 DEF StartTLS, Handshake, Handle, Goto
  <1>13. ASSUME NEW c \in Conns, Authenticate(c) \/ SaslFails(c)
         PROVE  LogoutStops'
    BY <1>13 DEF Authenticate, SaslFails, Handle, Goto
  <1>14. ASSUME NEW c \in Conns, NEW s \in Sessions, AuthorizeOpen(c, s)
         PROVE  LogoutStops'
    BY <1>14 DEF AuthorizeOpen
  <1>15. ASSUME NEW c \in Conns, AuthorizeInstall(c) \/ AuthorizeState(c)
         PROVE  LogoutStops'
    BY <1>15 DEF AuthorizeInstall, AuthorizeState, CloseSession, Goto
  <1>16. ASSUME NEW c \in Conns, ScriptCommand(c) \/ UseSession(c)
         PROVE  LogoutStops'
    BY <1>16 DEF ScriptCommand, UseSession, Handle, Goto
  <1>17. ASSUME NEW c \in Conns, Unauthenticate(c) \/ UnauthenticateClose(c)
                \/ UnauthenticateClear(c) \/ UnauthenticateState(c)
         PROVE  LogoutStops'
    <2>1. CASE Unauthenticate(c)
      BY <2>1 DEF Unauthenticate, Handle, Goto
    <2>2. CASE UnauthenticateClose(c)
      BY <2>2 DEF UnauthenticateClose, Goto, CloseSession
    <2>3. CASE UnauthenticateClear(c)
      BY <2>3 DEF UnauthenticateClear, Goto
    <2>4. CASE UnauthenticateState(c)
      BY <2>4 DEF UnauthenticateState, Goto
    <2> QED
      BY <1>17, <2>1, <2>2, <2>3, <2>4
  <1>18. CASE UNCHANGED vars
    BY <1>18 DEF vars
  <1> QED
    BY <1>1, <1>2, <1>3, <1>4, <1>5, <1>6, <1>7, <1>8, <1>9, <1>10, <1>11, <1>12,
        <1>13, <1>14, <1>15, <1>16, <1>17, <1>18
    DEF Next, ServeStep, CloserStep, ClosingStep, ConnStep

\* No step lets a Serve accept behind Server.Close.
LEMMA NoAcceptStep ==
    TypeOK /\ PlacesAgree /\ NoAcceptAfterClose /\ [Next]_vars => NoAcceptAfterClose'
  <1> SUFFICES ASSUME TypeOK, PlacesAgree, NoAcceptAfterClose, [Next]_vars
               PROVE  NoAcceptAfterClose'
    OBVIOUS
  <1> /\ loop \in [Listeners -> {"idle", "listed", "accepting", "returning", "returned"}]
      /\ lnOpen \in [Listeners -> BOOLEAN]
    BY DEF TypeOK
  <1> /\ closer # "idle" => closed
      /\ \A l \in Listeners :
             loop[l] \in {"listed", "accepting"} /\ closer = "listeners"
                 => l \in closeLs \/ ~lnOpen[l]
    BY DEF PlacesAgree
  <1> USE DEF NoAcceptAfterClose, serverVars, connVars, closeVars, sessVars
  <1>1. ASSUME NEW l \in Listeners, ServeList(l) \/ ServeAdd(l) \/ AcceptFails(l)
               \/ ServeUnlist(l)
        PROVE  NoAcceptAfterClose'
    BY <1>1 DEF ServeList, ServeAdd, AcceptFails, ServeUnlist
  <1>2. ASSUME NEW l \in Listeners, NEW c \in Conns, Accept(l, c)
        PROVE  NoAcceptAfterClose'
    BY <1>2 DEF Accept
  <1>3. CASE CloseBegin \/ CloseListenersDone
    BY <1>3 DEF CloseBegin, CloseListenersDone
  <1>4. ASSUME NEW l \in Listeners, CloseListener(l) PROVE NoAcceptAfterClose'
    BY <1>4 DEF CloseListener
  <1>5. ASSUME NEW c \in Conns, CloseConn(c) PROVE NoAcceptAfterClose'
    BY <1>5 DEF CloseConn, CloseMark
  <1>6. CASE CloseConnsDone \/ CloseWait
    BY <1>6 DEF CloseConnsDone, CloseWait
  <1>7. ASSUME NEW c \in Conns, CloseCopied(c) \/ CloseNet(c)
        PROVE  NoAcceptAfterClose'
    BY <1>7 DEF CloseCopied, CloseNet, CloseSession
  <1>8. ASSUME NEW c \in Conns, Register(c) \/ Greet(c)
        PROVE  NoAcceptAfterClose'
    BY <1>8 DEF Register, Greet, Goto
  <1>9. ASSUME NEW c \in Conns, Receive(c) \/ ReadFails(c) \/ NextCommand(c)
        PROVE  NoAcceptAfterClose'
    BY <1>9 DEF Receive, ReadFails, NextCommand, Goto
  <1>10. ASSUME NEW c \in Conns, Unregister(c) \/ DeferredClose(c)
         PROVE  NoAcceptAfterClose'
    BY <1>10 DEF Unregister, DeferredClose, CloseMark
  <1>11. ASSUME NEW c \in Conns, Refuse(c) \/ Answer(c) \/ Logout(c)
         PROVE  NoAcceptAfterClose'
    BY <1>11 DEF Refuse, Answer, Logout, Handle, Goto
  <1>12. ASSUME NEW c \in Conns, StartTLS(c) \/ Handshake(c)
         PROVE  NoAcceptAfterClose'
    BY <1>12 DEF StartTLS, Handshake, Handle, Goto
  <1>13. ASSUME NEW c \in Conns, Authenticate(c) \/ SaslFails(c)
         PROVE  NoAcceptAfterClose'
    BY <1>13 DEF Authenticate, SaslFails, Handle, Goto
  <1>14. ASSUME NEW c \in Conns, NEW s \in Sessions, AuthorizeOpen(c, s)
         PROVE  NoAcceptAfterClose'
    BY <1>14 DEF AuthorizeOpen
  <1>15. ASSUME NEW c \in Conns, AuthorizeInstall(c) \/ AuthorizeState(c)
         PROVE  NoAcceptAfterClose'
    BY <1>15 DEF AuthorizeInstall, AuthorizeState, CloseSession, Goto
  <1>16. ASSUME NEW c \in Conns, ScriptCommand(c) \/ UseSession(c)
         PROVE  NoAcceptAfterClose'
    BY <1>16 DEF ScriptCommand, UseSession, Handle, Goto
  <1>17. ASSUME NEW c \in Conns, Unauthenticate(c) \/ UnauthenticateClose(c)
                \/ UnauthenticateClear(c) \/ UnauthenticateState(c)
         PROVE  NoAcceptAfterClose'
    BY <1>17 DEF Unauthenticate, UnauthenticateClose, UnauthenticateClear,
        UnauthenticateState, Handle, Goto, CloseSession
  <1>18. CASE UNCHANGED vars
    BY <1>18 DEF vars
  <1> QED
    BY <1>1, <1>2, <1>3, <1>4, <1>5, <1>6, <1>7, <1>8, <1>9, <1>10, <1>11, <1>12,
        <1>13, <1>14, <1>15, <1>16, <1>17, <1>18
    DEF Next, ServeStep, CloserStep, ClosingStep, ConnStep

\* What SessionsCounted speaks of is as it was.
Quiet ==
    /\ UNCHANGED <<session, fresh, closedBy, closeAt, snap, opener, closes>>
    /\ \A c \in Conns : pc'[c] = "dropped" <=> pc[c] = "dropped"

\* Every step but the eight that close, open, install or drop a session, or
\* are part of Conn.Close, is quiet.
LEMMA QuietSteps ==
    ASSUME TypeOK, [Next]_vars
    PROVE  \/ Quiet
           \/ \E c \in Conns :
                  \/ CloseConn(c) \/ DeferredClose(c) \/ CloseCopied(c) \/ CloseNet(c)
                  \/ \E s \in Sessions : AuthorizeOpen(c, s)
                  \/ AuthorizeInstall(c) \/ UnauthenticateClose(c)
                  \/ UnauthenticateClear(c)
  <1> DEFINE Same == UNCHANGED <<session, fresh, closedBy, closeAt, snap, opener, closes>>
  <1>0. pc \in [Conns -> Places]
    BY DEF TypeOK
  <1>1. ASSUME Same, UNCHANGED pc PROVE Quiet
    BY <1>1 DEF Quiet
  <1>2. ASSUME Same, NEW c \in Conns, NEW p \in Places \ {"dropped"}, pc[c] #
               "dropped", pc' = [pc EXCEPT ![c] = p]
        PROVE  Quiet
    BY <1>0, <1>2 DEF Quiet
  <1>3. ASSUME NEW l \in Listeners, ServeStep(l) PROVE Quiet
    BY <1>1, <1>3
    DEF ServeStep, ServeList, ServeAdd, AcceptFails, ServeUnlist, connVars,
        closeVars, sessVars
  <1>4. ASSUME NEW l \in Listeners, NEW c \in Conns, Accept(l, c) PROVE Quiet
    BY <1>2, <1>4 DEF Accept, sessVars, Places
  <1>5. CASE \/ CloseBegin \/ CloseListenersDone \/ CloseConnsDone \/ CloseWait
             \/ \E l \in Listeners : CloseListener(l)
    BY <1>1, <1>5
    DEF CloseBegin, CloseListener, CloseListenersDone, CloseConnsDone, CloseWait,
        connVars, closeVars, sessVars
  <1>6. ASSUME NEW c \in Conns, Register(c) \/ Greet(c) \/ Unregister(c) PROVE Quiet
    BY <1>2, <1>6
    DEF Register, Greet, Unregister, Goto, closeVars, sessVars, Places
  <1>7. ASSUME NEW c \in Conns, Receive(c) \/ ReadFails(c) \/ NextCommand(c) PROVE Quiet
    BY <1>2, <1>7
    DEF Receive, ReadFails, NextCommand, Goto, closeVars, sessVars, Places
  <1>8. ASSUME NEW c \in Conns, Refuse(c) \/ Answer(c) \/ Logout(c) PROVE Quiet
    <2>1. CASE Refuse(c) \/ Answer(c)
      BY <1>2, <2>1 DEF Refuse, Answer, Handle, Goto, closeVars, sessVars, Places
    <2>2. CASE Logout(c)
      BY <1>2, <2>2 DEF Logout, Handle, Goto, closeVars, sessVars, Places
    <2>3. QED
      BY <1>8, <2>1, <2>2
  <1>9. ASSUME NEW c \in Conns, StartTLS(c) \/ Handshake(c) PROVE Quiet
    BY <1>2, <1>9 DEF StartTLS, Handshake, Handle, Goto, closeVars, sessVars, Places
  <1>10. ASSUME NEW c \in Conns, Authenticate(c) \/ SaslFails(c) \/ AuthorizeState(c)
         PROVE  Quiet
    <2>1. CASE Authenticate(c)
      BY <1>2, <2>1 DEF Authenticate, Handle, Goto, closeVars, sessVars, Places
    <2>2. CASE SaslFails(c) \/ AuthorizeState(c)
      BY <1>2, <2>2 DEF SaslFails, AuthorizeState, Goto, closeVars, sessVars, Places
    <2>3. QED
      BY <1>10, <2>1, <2>2
  <1>11. ASSUME NEW c \in Conns, ScriptCommand(c) \/ UseSession(c) PROVE Quiet
    BY <1>2, <1>11 DEF ScriptCommand, UseSession, Handle, Goto, closeVars, sessVars, Places
  <1>12. ASSUME NEW c \in Conns, Unauthenticate(c) \/ UnauthenticateState(c) PROVE Quiet
    BY <1>2, <1>12 DEF Unauthenticate, UnauthenticateState, Handle, Goto,
        closeVars, sessVars, Places
  <1>13. CASE UNCHANGED vars
    BY <1>1, <1>13 DEF vars, connVars, closeVars, sessVars
  <1> QED
    BY <1>3, <1>4, <1>5, <1>6, <1>7, <1>8, <1>9, <1>10, <1>11, <1>12, <1>13
    DEF Next, CloserStep, ClosingStep, ConnStep

\* Every step keeps the account of opened and closed sessions.
LEMMA SessionsStep ==
    TypeOK /\ PlacesAgree /\ StateAgrees /\ SessionsCounted /\ [Next]_vars
        => SessionsCounted'
  <1> SUFFICES ASSUME TypeOK, PlacesAgree, StateAgrees, SessionsCounted, [Next]_vars
               PROVE  SessionsCounted'
    OBVIOUS
  <1>1. /\ pc \in [Conns -> Places]
        /\ session \in [Conns -> Sessions \cup {NoSession}]
        /\ fresh \in [Conns -> Sessions \cup {NoSession}]
        /\ closedBy \in [Conns -> {"none", "serve", "server"}]
        /\ closeAt \in [Conns -> {"none", "session", "conn", "done"}]
        /\ snap \in [Conns -> Sessions \cup {NoSession}]
        /\ opener \in [Sessions -> Conns \cup {NoConn}]
        /\ closes \in [Sessions -> Nat]
    BY DEF TypeOK
  <1>2. NoSession \notin Sessions /\ NoConn \notin Conns
    BY ServerAssumption
  <1>3. \A c \in Conns :
            /\ closedBy[c] = "none" <=> closeAt[c] = "none"
            /\ closedBy[c] = "serve" => pc[c] \in {"closing", "exited"}
    BY DEF PlacesAgree
  <1>4. \A c \in Conns :
            /\ pc[c] = "opened" => session[c] = NoSession
            /\ pc[c] \in {"dropping", "dropped"} => session[c] # NoSession
            /\ fresh[c] # NoSession <=> pc[c] = "opened"
    BY DEF StateAgrees
  <1> USE DEF SessionsCounted, Held
  <1>5. CASE Quiet
    BY <1>5, SMT DEF Quiet
  <1>6. ASSUME NEW c \in Conns, CloseConn(c) \/ DeferredClose(c) PROVE SessionsCounted'
    BY <1>1, <1>3, <1>6, SMT DEF CloseConn, DeferredClose, CloseMark, sessVars
  <1>7. ASSUME NEW c \in Conns, CloseCopied(c) PROVE SessionsCounted'
    BY <1>1, <1>2, <1>3, <1>4, <1>7, SMT
    DEF CloseCopied, CloseSession, connVars
  <1>8. ASSUME NEW c \in Conns, CloseNet(c) PROVE SessionsCounted'
    BY <1>1, <1>3, <1>8, SMT DEF CloseNet, sessVars
  <1>9. ASSUME NEW c \in Conns, NEW s \in Sessions, AuthorizeOpen(c, s)
        PROVE  SessionsCounted'
    BY <1>1, <1>2, <1>3, <1>4, <1>9, SMT DEF AuthorizeOpen, closeVars
  <1>10. ASSUME NEW c \in Conns, AuthorizeInstall(c) PROVE SessionsCounted'
    BY <1>1, <1>2, <1>3, <1>4, <1>10, SMT
    DEF AuthorizeInstall, CloseSession, closeVars
  <1>11. ASSUME NEW c \in Conns, UnauthenticateClose(c) PROVE SessionsCounted'
    BY <1>1, <1>2, <1>3, <1>4, <1>11, SMT
    DEF UnauthenticateClose, CloseSession, closeVars
  <1>12. ASSUME NEW c \in Conns, UnauthenticateClear(c) PROVE SessionsCounted'
    BY <1>1, <1>2, <1>3, <1>4, <1>12, SMT DEF UnauthenticateClear, Goto, closeVars, sessVars
  <1> QED
    BY QuietSteps, <1>5, <1>6, <1>7, <1>8, <1>9, <1>10, <1>11, <1>12

-----------------------------------------------------------------------------
\* A new server satisfies the invariant.
LEMMA InitIInv == Init => IInv
  <1> SUFFICES ASSUME Init PROVE IInv
    OBVIOUS
  <1>1. TypeOK
    BY ServerAssumption DEF Init, TypeOK, Places
  <1>2. WgCounts
    <2>1. Accepting = {}
      BY DEF Init, Accepting
    <2> QED
      BY <2>1, FS_EmptySet DEF Init, WgCounts
  <1>3. PlacesAgree
    BY DEF Init, PlacesAgree, Serving
  <1>4. StateAgrees /\ AuthenticatedProtected /\ LogoutStops
    BY DEF Init, StateAgrees, AuthenticatedProtected, LogoutStops
  <1>5. NoAcceptAfterClose
    BY DEF Init, NoAcceptAfterClose
  <1>6. SessionsCounted
    BY ServerAssumption DEF Init, SessionsCounted
  <1> QED
    BY <1>1, <1>2, <1>3, <1>4, <1>5, <1>6 DEF IInv

\* Every step keeps it.
LEMMA NextIInv == IInv /\ [Next]_vars => IInv'
  BY TypeStep, WgStep, PlacesStep, StateStep, ProtectedStep, LogoutStep,
     NoAcceptStep, SessionsStep DEF IInv

\* The inductive invariant holds throughout every behaviour of the server.
THEOREM Invariance == Spec => []IInv
  BY InitIInv, NextIInv, PTL DEF Spec

\* Server and connections keep their types, and the wait group never becomes
\* negative.
THEOREM TypeCorrect == Spec => []TypeOK
  BY Invariance, PTL DEF IInv

\* A handler past the gate has a session, its own, and open unless Server.Close
\* closed the connection.
THEOREM SessionsUsed == Spec => []UsesOwnOpenSession
  <1>1. IInv => \A c \in Conns : pc[c] = "using" => session[c] \in Sessions
    BY ServerAssumption DEF IInv, TypeOK, StateAgrees
  <1>2. ASSUME IInv, NEW c \in Conns, pc[c] = "using"
        PROVE  /\ opener[session[c]] = c
               /\ closes[session[c]] = 0 \/ closedBy[c] = "server"
    BY <1>1, <1>2, ServerAssumption
    DEF IInv, TypeOK, PlacesAgree, StateAgrees, SessionsCounted, Held
  <1>3. IInv => UsesOwnOpenSession
    BY <1>1, <1>2 DEF UsesOwnOpenSession
  <1> QED
    BY Invariance, <1>3, PTL

\* A connection that ended by itself closed each of its sessions once.
THEOREM CleanEnd == Spec => []EndedCleanly
  <1>1. IInv => EndedCleanly
    BY ServerAssumption, SMT
    DEF IInv, TypeOK, PlacesAgree, StateAgrees, SessionsCounted, Held, EndedCleanly
  <1> QED
    BY Invariance, <1>1, PTL

\* Nobody is authenticated over plaintext unless InsecureAuth is set, and LOGOUT
\* ends the handling of commands.
THEOREM Protected == Spec => [](AuthenticatedProtected /\ LogoutStops)
  BY Invariance, PTL DEF IInv

\* Behind Server.Close no Serve accepts, and only connections registered late
\* are served on without having been closed.
THEOREM Shutdown == Spec => [](NoAcceptAfterClose /\ SurvivorsRegisteredLate)
  <1>1. IInv => SurvivorsRegisteredLate
    BY DEF IInv, PlacesAgree, SurvivorsRegisteredLate
  <1>2. IInv => NoAcceptAfterClose
    BY DEF IInv
  <1> QED
    BY Invariance, <1>1, <1>2, PTL
=============================================================================
