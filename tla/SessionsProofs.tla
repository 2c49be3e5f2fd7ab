---------------------------- MODULE SessionsProofs ----------------------------
(***************************************************************************)
(* Proofs about Sessions for every number of tabs, users and sessions:     *)
(* the type invariant, the rows behind the cookies, what an answered       *)
(* sign-out means, and that the module implements SessionAccess. For one   *)
(* tab, that the page shows the user of its cookie.                        *)
(***************************************************************************)
EXTENDS Sessions, TLAPS

(* A request that was stamped had what its statement needs. *)
StampedFits ==
  \A c \in Call :
    /\ calls[c].pc \in {"sent", "stamped"} /\ c[2] = "signIn" => calls[c].user \in User
    /\ calls[c].pc = "stamped" /\ c[2] # "signIn" => calls[c].cookie # None
    /\ calls[c].pc = "granted" => c[2] = "private" /\ calls[c].answer = "ok"

Typed == TypeOK /\ StampedFits
IInv == Typed /\ CookiesHaveRows /\ SignedOutIsOver

-----------------------------------------------------------------------------
(* What the operators that change one request return. *)

LEMMA IdleType == Idle \in CallState
BY LifetimeAssumption DEF CallState, Idle, Ended, Pc

LEMMA SentType ==
  ASSUME TypeOK, NEW u \in User \cup {None}
  PROVE  Sent(u) \in CallState
BY LifetimeAssumption DEF TypeOK, CallState, Sent, Pc

LEMMA CallType == ASSUME TypeOK, NEW c \in Call PROVE calls[c] \in CallState
BY DEF TypeOK

LEMMA FailType ==
  ASSUME TypeOK, NEW c \in Call, NEW pc \in {"answered", "received"},
         NEW answer \in {"denied", "failed"}, Fail(c, pc, answer)
  PROVE  /\ calls' \in [Call -> CallState]
         /\ calls'[c] = Ended(pc, answer, calls[c].at, calls[c].heard)
         /\ \A d \in Call \ {c} : calls'[d] = calls[d]
<1>1. Ended(pc, answer, calls[c].at, calls[c].heard) \in CallState
  BY CallType DEF CallState, Ended, Pc
<1> QED BY <1>1 DEF Fail, TypeOK

LEMMA SucceedType ==
  ASSUME TypeOK, NEW c \in Call, NEW k \in Token \cup {None, Clear}, Succeed(c, k)
  PROVE  /\ calls' \in [Call -> CallState]
         /\ calls'[c] = [pc |-> "answered", cookie |-> calls[c].cookie, user |-> calls[c].user,
                         at |-> calls[c].at, answer |-> "ok", setCookie |-> k,
                         heard |-> calls[c].heard]
         /\ \A d \in Call \ {c} : calls'[d] = calls[d]
BY ZenonT(60), CallType DEF TypeOK, CallState, Pc, Succeed

-----------------------------------------------------------------------------
(* The rows, the cookies and the pages stay well formed. *)
LEMMA TypedSend ==
  ASSUME Typed, NEW tab \in Tab, Send(tab)
  PROVE  Typed'
<1> USE DEF Typed
<1>1. CASE Load(tab)
  <2>1. tabs' \in [Tab -> TabState]
    BY <1>1 DEF Load, TypeOK, TabState
  <2>2. ASSUME NEW c \in Call PROVE calls'[c] \in CallState
    <3>1. CASE c = <<tab, "restore">>
      BY <3>1, <1>1, SentType DEF Load
    <3>2. CASE c # <<tab, "restore">>
      BY <3>2, <1>1, CallType DEF Load, CallState
    <3> QED BY <3>1, <3>2
  <2>3. calls' \in [Call -> CallState]
    BY <1>1, <2>2 DEF Load
  <2>4. overlap' \in BOOLEAN
    BY <1>1 DEF Load, TypeOK, Busy
  <2>5. StampedFits'
    <3> SUFFICES ASSUME NEW c \in Call
        PROVE  /\ calls'[c].pc \in {"sent", "stamped"} /\ c[2] = "signIn" => calls'[c].user \in User
               /\ calls'[c].pc = "stamped" /\ c[2] # "signIn" => calls'[c].cookie # None
               /\ calls'[c].pc = "granted" => c[2] = "private" /\ calls'[c].answer = "ok"
      BY DEF StampedFits
    <3>1. CASE c = <<tab, "restore">>
      BY <3>1, <1>1, SentType DEF Load, Sent
    <3>2. CASE c # <<tab, "restore">>
      BY <3>2, <1>1, CallType DEF Load, CallState, StampedFits
    <3> QED BY <3>1, <3>2
  <2> QED BY <1>1, <2>1, <2>3, <2>4, <2>5 DEF Load, TypeOK
<1>2. ASSUME NEW k \in {"signIn", "signOut", "private"}, NEW u \in User \cup {None},
             k = "signIn" => u \in User, <<tab, k>> \in Call,
             calls' = [calls EXCEPT ![<<tab, k>>] = Sent(u)],
             overlap' \in BOOLEAN, UNCHANGED <<clock, rows, jar, tabs>>
      PROVE  Typed'
  <2>1. TypeOK'
    BY <1>2, SentType DEF TypeOK
  <2>2. \A c \in Call : calls'[c] = IF c = <<tab, k>> THEN Sent(u) ELSE calls[c]
    BY <1>2 DEF TypeOK
  <2>3. Sent(u).pc = "sent" /\ Sent(u).user = u
    BY DEF Sent
  <2>4. StampedFits'
    BY <1>2, <2>2, <2>3 DEF StampedFits
  <2> QED BY <2>1, <2>4
<1>3. ASSUME NEW u \in User, SendSignIn(tab, u) PROVE Typed'
  BY <1>2, <1>3 DEF SendSignIn, CanSend, TypeOK, TabState
<1>4. CASE SendSignOut(tab)
  BY <1>2, <1>4 DEF SendSignOut, CanSend, TypeOK
<1>5. CASE SendPrivate(tab)
  BY <1>2, <1>5 DEF SendPrivate, CanSend, TypeOK
<1> QED BY <1>1, <1>3, <1>4, <1>5 DEF Send

LEMMA TypedServer ==
  ASSUME Typed, CookiesHaveRows, NEW c \in Call, Server(c)
  PROVE  Typed'
<1> USE DEF Typed
<1>d. ASSUME calls' \in [Call -> CallState], \A d \in Call \ {c} : calls'[d] = calls[d],
             calls'[c].pc \in {"sent", "stamped"} /\ c[2] = "signIn" => calls'[c].user \in User,
             calls'[c].pc = "stamped" /\ c[2] # "signIn" => calls'[c].cookie # None,
             calls'[c].pc = "granted" => c[2] = "private" /\ calls'[c].answer = "ok"
      PROVE  StampedFits'
  <2> SUFFICES ASSUME NEW e \in Call
      PROVE  /\ calls'[e].pc \in {"sent", "stamped"} /\ e[2] = "signIn" => calls'[e].user \in User
             /\ calls'[e].pc = "stamped" /\ e[2] # "signIn" => calls'[e].cookie # None
             /\ calls'[e].pc = "granted" => e[2] = "private" /\ calls'[e].answer = "ok"
    BY DEF StampedFits
  <2>1. CASE e = c
    BY <1>d, <2>1
  <2>2. CASE e # c
    BY <1>d, <2>2 DEF StampedFits
  <2> QED BY <2>1, <2>2
<1>f. ASSUME NEW pc \in {"answered", "received"}, NEW answer \in {"denied", "failed"},
             Fail(c, pc, answer)
      PROVE  calls' \in [Call -> CallState] /\ StampedFits'
  <2>1. /\ calls' \in [Call -> CallState] /\ \A d \in Call \ {c} : calls'[d] = calls[d]
        /\ calls'[c] = Ended(pc, answer, calls[c].at, calls[c].heard)
    BY <1>f, FailType
  <2>2. calls'[c].pc \in {"answered", "received"}
    BY <2>1 DEF Ended
  <2>3. calls'[c].pc \notin {"sent", "stamped", "granted"}
    BY <2>2
  <2> QED BY <1>d, <2>1, <2>3
<1>s. ASSUME NEW k \in Token \cup {None, Clear}, Succeed(c, k)
      PROVE  calls' \in [Call -> CallState] /\ StampedFits'
  <2>1. calls' \in [Call -> CallState] /\ \A d \in Call \ {c} : calls'[d] = calls[d]
    BY <1>s, SucceedType DEF Typed
  <2>2. calls'[c].pc = "answered"
    BY <1>s, CallType DEF Succeed, TypeOK
  <2>3. calls'[c].pc \notin {"sent", "stamped", "granted"}
    BY <2>2
  <2> QED BY <1>d, <2>1, <2>3
<1>1. CASE NoCookie(c)
  BY <1>1, <1>f, <1>s DEF NoCookie, TypeOK
<1>2. CASE Stamp(c)
  <2>1. /\ calls' \in [Call -> CallState] /\ \A d \in Call \ {c} : calls'[d] = calls[d]
        /\ calls'[c] = [pc |-> "stamped", cookie |-> calls[c].cookie, user |-> calls[c].user,
                        at |-> clock, answer |-> calls[c].answer,
                        setCookie |-> calls[c].setCookie, heard |-> calls[c].heard]
    BY ZenonT(60), <1>2, CallType DEF Stamp, TypeOK, CallState, Pc
  <2>2. StampedFits'
    BY <1>2, <1>d, <2>1 DEF Stamp, StampedFits
  <2> QED BY <1>2, <2>1, <2>2 DEF Stamp, TypeOK
<1>3. CASE FindActiveSession(c)
  <2> DEFINE t == calls[c].cookie
  <2>1. CASE Active(t, calls[c].at) /\ calls' =
               [calls EXCEPT ![c].user = rows[t].user,
                             ![c].pc = IF c[2] = "private" THEN "granted" ELSE "answered",
                             ![c].answer = "ok"]
    <3>1. t \in Token /\ rows[t].user \in User
      BY <1>3, <2>1, CallType DEF FindActiveSession, Active, TypeOK, CallState, StampedFits, Session
    <3>2. /\ calls' \in [Call -> CallState] /\ \A d \in Call \ {c} : calls'[d] = calls[d]
          /\ calls'[c] = [pc |-> IF c[2] = "private" THEN "granted" ELSE "answered",
                          cookie |-> t, user |-> rows[t].user, at |-> calls[c].at,
                          answer |-> "ok", setCookie |-> calls[c].setCookie,
                          heard |-> calls[c].heard]
      BY ZenonT(60), <2>1, <3>1, CallType DEF TypeOK, CallState, Pc
    <3>3. StampedFits'
      BY <1>d, <3>2
    <3> QED BY <1>3, <3>2, <3>3 DEF FindActiveSession, TypeOK
  <2>2. CASE Fail(c, "answered", "denied") \/ Fail(c, "answered", "failed")
    BY <1>3, <2>2, <1>f DEF FindActiveSession, TypeOK
  <2> QED BY <1>3, <2>1, <2>2 DEF FindActiveSession
<1>4. CASE Serve(c)
  BY <1>4, <1>s DEF Serve, TypeOK
<1>5. CASE CreateSession(c)
  <2>1. CASE UNCHANGED rows /\ Fail(c, "answered", "failed")
    BY <1>5, <2>1, <1>f DEF CreateSession, TypeOK
  <2>2. ASSUME NEW t \in Token,
               rows' = [rows EXCEPT ![t] = [user |-> calls[c].user,
                                            expiresAt |-> calls[c].at + Lifetime,
                                            revoked |-> FALSE]],
               Succeed(c, t) \/ Fail(c, "answered", "failed")
        PROVE  Typed'
    <3>1. calls[c].user \in User /\ calls[c].at \in 0 .. MaxTime
      BY <1>5, CallType DEF CreateSession, CallState, StampedFits
    <3>2. calls[c].at + Lifetime \in Time
      BY <3>1, LifetimeAssumption DEF Time
    <3>3. rows' \in [Token -> Session \cup {None}]
      BY <2>2, <3>1, <3>2 DEF TypeOK, Session
    <3> QED BY <1>5, <2>2, <3>3, <1>f, <1>s DEF CreateSession, TypeOK
  <2> QED BY <1>5, <2>1, <2>2 DEF CreateSession
<1>6. CASE Refuse(c)
  BY <1>6, <1>f DEF Refuse, TypeOK
<1>7. CASE RevokeSession(c)
  <2>1. rows' \in [Token -> Session \cup {None}]
    <3>1. calls[c].cookie \in Token
      BY <1>7, CallType DEF RevokeSession, StampedFits, CallState
    <3>2. rows[calls[c].cookie] \in Session
      BY <3>1 DEF TypeOK, CookiesHaveRows
    <3> QED BY ZenonT(60), <1>7, <3>1, <3>2 DEF RevokeSession, TypeOK, Revoked, Session
  <2> QED BY <1>7, <2>1, <1>f, <1>s DEF RevokeSession, TypeOK
<1> QED BY <1>1, <1>2, <1>3, <1>4, <1>5, <1>6, <1>7 DEF Server

LEMMA TypedBrowser ==
  ASSUME Typed, NEW c \in Call, Browser(c)
  PROVE  Typed'
<1> USE DEF Typed
<1>1. CASE Lose(c)
  <2>1. /\ calls' \in [Call -> CallState] /\ \A d \in Call \ {c} : calls'[d] = calls[d]
        /\ calls'[c] = Ended("received", "failed", calls[c].at, calls[c].heard)
    BY <1>1, FailType DEF Lose
  <2>2. calls'[c].pc = "received"
    BY <2>1 DEF Ended
  <2>3. StampedFits'
    BY <2>1, <2>2 DEF StampedFits
  <2> QED BY <1>1, <2>1, <2>3 DEF Lose, TypeOK
<1>2. CASE Receive(c)
  <2>1. /\ calls' \in [Call -> CallState] /\ \A d \in Call \ {c} : calls'[d] = calls[d]
        /\ calls'[c] = [pc |-> "received", cookie |-> calls[c].cookie, user |-> calls[c].user,
                        at |-> calls[c].at, answer |-> calls[c].answer,
                        setCookie |-> None, heard |-> calls[c].heard]
    BY ZenonT(60), <1>2, CallType DEF Receive, TypeOK, CallState, Pc
  <2>2. StampedFits'
    BY <2>1 DEF StampedFits
  <2>3. jar' \in Token \cup {None}
    BY <1>2, CallType DEF Receive, TypeOK, CallState
  <2> QED BY <1>2, <2>1, <2>2, <2>3 DEF Receive, TypeOK
<1>3. CASE Settle(c)
  <2>1. calls' \in [Call -> CallState] /\ \A d \in Call : calls'[d] = IF d = c THEN Idle ELSE calls[d]
    BY <1>3, IdleType DEF Settle, TypeOK
  <2>2. Idle.pc = "idle"
    BY DEF Idle, Ended
  <2>3. StampedFits'
    BY <2>1, <2>2 DEF StampedFits
  <2>4. c[1] \in Tab /\ tabs[c[1]] \in TabState /\ calls[c].user \in User \cup {None}
    BY CallType DEF TypeOK, Call, CallState
  <2>5. /\ Restored(tabs[c[1]], calls[c]) \in TabState
        /\ SignedIn(tabs[c[1]], calls[c]) \in TabState
        /\ SignedOut(tabs[c[1]], calls[c]) \in TabState
    BY <2>4 DEF Restored, SignedIn, SignedOut, TabState
  <2>6. tabs' \in [Tab -> TabState]
    BY <1>3, <2>4, <2>5 DEF Settle, TypeOK
  <2> QED BY <1>3, <2>1, <2>3, <2>6 DEF Settle, TypeOK
<1> QED BY <1>1, <1>2, <1>3 DEF Browser

LEMMA TypedStep ==
  ASSUME Typed, CookiesHaveRows, [Next]_vars
  PROVE  Typed'
<1>1. CASE CookieExpires
  BY <1>1 DEF CookieExpires, Typed, TypeOK, StampedFits
<1>2. CASE Tick
  BY <1>2, LifetimeAssumption DEF Tick, Typed, TypeOK, StampedFits
<1>3. CASE UNCHANGED vars
  BY <1>3 DEF vars, Typed, TypeOK, StampedFits
<1> QED BY <1>1, <1>2, <1>3, TypedSend, TypedServer, TypedBrowser DEF Next

-----------------------------------------------------------------------------
(* A row keeps its user and its expiry, and stays revoked. *)
RowsClose ==
  \A t \in Token : rows[t] # None =>
    /\ rows'[t] # None
    /\ rows'[t].user = rows[t].user /\ rows'[t].expiresAt = rows[t].expiresAt
    /\ rows[t].revoked => rows'[t].revoked

LEMMA RowsCloseStep ==
  ASSUME Typed, CookiesHaveRows, [Next]_vars
  PROVE  RowsClose
<1> USE DEF Typed
<1>1. CASE UNCHANGED rows
  BY <1>1 DEF RowsClose
<1>2. ASSUME NEW c \in Call, CreateSession(c) PROVE RowsClose
  BY <1>2 DEF CreateSession, TypeOK, RowsClose
<1>3. ASSUME NEW c \in Call, RevokeSession(c) PROVE RowsClose
  <2>1. calls[c].cookie \in Token /\ rows[calls[c].cookie] \in Session
    BY <1>3, CallType DEF RevokeSession, StampedFits, CallState, TypeOK, CookiesHaveRows
  <2>2. CASE UNCHANGED rows
    BY <1>1, <2>2
  <2>3. CASE rows' = Revoked(calls[c].cookie)
    <3>1. rows'[calls[c].cookie] = [user |-> rows[calls[c].cookie].user,
             expiresAt |-> rows[calls[c].cookie].expiresAt, revoked |-> TRUE]
      BY <2>1, <2>3 DEF Revoked, TypeOK, Session
    <3>2. rows'[calls[c].cookie] \in Session
      BY <2>1, <3>1 DEF Session
    <3>3. rows'[calls[c].cookie] # None
      BY <3>2, NoneAssumption
    <3>4. \A t \in Token \ {calls[c].cookie} : rows'[t] = rows[t]
      BY <2>1, <2>3 DEF Revoked, TypeOK
    <3> QED BY <3>1, <3>3, <3>4 DEF RowsClose
  <2> QED BY <1>3, <2>2, <2>3 DEF RevokeSession
<1> QED
  BY <1>1, <1>2, <1>3
  DEF Next, vars, Send, Load, SendSignIn, SendSignOut, SendPrivate, Server, NoCookie, Stamp,
      FindActiveSession, Serve, Refuse, Browser, Lose, Receive, Settle, CookieExpires, Tick

-----------------------------------------------------------------------------
(* Every cookie has a row: a step only moves cookies about, and the one it *)
(* makes comes with its row.                                               *)
LEMMA CookiesStep ==
  ASSUME Typed, CookiesHaveRows, [Next]_vars
  PROVE  CookiesHaveRows'
<1> USE DEF Typed
<1> SUFFICES ASSUME NEW t \in Token, rows'[t] = None
             PROVE  jar' # t /\ \A c \in Call : calls'[c].cookie # t /\ calls'[c].setCookie # t
  BY DEF CookiesHaveRows
<1>0. /\ jar # t /\ None # t /\ Clear # t
      /\ \A c \in Call : calls[c].cookie # t /\ calls[c].setCookie # t
  BY RowsCloseStep, NoneAssumption DEF RowsClose, CookiesHaveRows
<1>f. ASSUME NEW c \in Call, NEW pc \in {"answered", "received"}, NEW answer \in {"denied", "failed"},
             Fail(c, pc, answer)
      PROVE  \A d \in Call : calls'[d].cookie # t /\ calls'[d].setCookie # t
  <2>1. /\ \A d \in Call \ {c} : calls'[d] = calls[d]
        /\ calls'[c] = Ended(pc, answer, calls[c].at, calls[c].heard)
    BY <1>f, FailType
  <2>2. calls'[c].cookie = None /\ calls'[c].setCookie = None
    BY <2>1 DEF Ended
  <2> QED BY <1>0, <2>1, <2>2
<1>s. ASSUME NEW c \in Call, NEW k \in Token \cup {None, Clear}, k # t, Succeed(c, k)
      PROVE  \A d \in Call : calls'[d].cookie # t /\ calls'[d].setCookie # t
  <2>1. /\ \A d \in Call \ {c} : calls'[d] = calls[d]
        /\ calls'[c].cookie = calls[c].cookie /\ calls'[c].setCookie = k
    BY <1>s, CallType DEF Succeed, TypeOK, CallState
  <2> QED BY <1>0, <1>s, <2>1
<1>1. ASSUME NEW tab \in Tab, Send(tab)
      PROVE  jar' # t /\ \A c \in Call : calls'[c].cookie # t /\ calls'[c].setCookie # t
  <2>1. \A u \in User \cup {None} : Sent(u).cookie = jar /\ Sent(u).setCookie = None
    BY DEF Sent
  <2>2. CASE Load(tab)
    <3>1. ASSUME NEW c \in Call
          PROVE  calls'[c].cookie \in {jar, calls[c].cookie}
                 /\ calls'[c].setCookie \in {None, calls[c].setCookie}
      BY <2>1, <2>2, CallType DEF Load, CallState
    <3> QED BY <1>0, <2>2, <3>1 DEF Load
  <2>3. CASE SendSignOut(tab)
    BY <1>0, <2>1, <2>3 DEF SendSignOut, TypeOK
  <2>4. CASE SendPrivate(tab)
    BY <1>0, <2>1, <2>4 DEF SendPrivate, TypeOK
  <2>5. ASSUME NEW u \in User, SendSignIn(tab, u)
        PROVE  jar' # t /\ \A c \in Call : calls'[c].cookie # t /\ calls'[c].setCookie # t
    BY <1>0, <2>1, <2>5 DEF SendSignIn, TypeOK
  <2> QED BY <1>1, <2>2, <2>3, <2>4, <2>5 DEF Send
<1>2. ASSUME NEW c \in Call, Server(c)
      PROVE  jar' # t /\ \A d \in Call : calls'[d].cookie # t /\ calls'[d].setCookie # t
  <2>1. jar' = jar
    BY <1>2 DEF Server, NoCookie, Stamp, FindActiveSession, Serve, CreateSession, Refuse,
                RevokeSession
  <2>2. CASE NoCookie(c) \/ Serve(c) \/ Refuse(c) \/ RevokeSession(c)
    BY <1>0, <1>f, <1>s, <2>1, <2>2 DEF NoCookie, Serve, Refuse, RevokeSession
  <2>3. CASE Stamp(c)
    BY <1>0, <2>1, <2>3, CallType DEF Stamp, TypeOK, CallState
  <2>4. CASE FindActiveSession(c)
    <3>1. ASSUME NEW answer \in {"denied", "failed"}, Fail(c, "answered", answer)
          PROVE  \A d \in Call : calls'[d].cookie # t /\ calls'[d].setCookie # t
      BY <1>f, <3>1
    <3>2. CASE calls' = [calls EXCEPT ![c].user = rows[calls[c].cookie].user,
                           ![c].pc = IF c[2] = "private" THEN "granted" ELSE "answered",
                           ![c].answer = "ok"]
      BY <1>0, <2>1, <3>2, CallType DEF TypeOK, CallState
    <3> QED BY <1>0, <2>1, <2>4, <3>1, <3>2 DEF FindActiveSession
  <2>5. CASE CreateSession(c)
    <3>1. ASSUME Fail(c, "answered", "failed")
          PROVE  \A d \in Call : calls'[d].cookie # t /\ calls'[d].setCookie # t
      BY <1>f, <3>1
    <3>2. ASSUME NEW k \in Token, Succeed(c, k),
                 rows' = [rows EXCEPT ![k] = [user |-> calls[c].user,
                                              expiresAt |-> calls[c].at + Lifetime,
                                              revoked |-> FALSE]]
          PROVE  \A d \in Call : calls'[d].cookie # t /\ calls'[d].setCookie # t
      <4>1. calls[c].user \in User /\ calls[c].at + Lifetime \in Time
        BY <2>5, CallType, LifetimeAssumption DEF CreateSession, StampedFits, CallState, Time
      <4>2. rows'[k] \in Session
        BY <3>2, <4>1 DEF TypeOK, Session
      <4>3. k # t
        BY <4>2, NoneAssumption
      <4> QED BY <1>s, <3>2, <4>3
    <3> QED BY <1>0, <2>1, <2>5, <3>1, <3>2 DEF CreateSession
  <2> QED BY <1>2, <2>2, <2>3, <2>4, <2>5 DEF Server
<1>3. ASSUME NEW c \in Call, Browser(c)
      PROVE  jar' # t /\ \A d \in Call : calls'[d].cookie # t /\ calls'[d].setCookie # t
  <2>1. CASE Lose(c)
    BY <1>0, <1>f, <2>1 DEF Lose
  <2>2. CASE Receive(c)
    <3>1. \A d \in Call : calls'[d].cookie = calls[d].cookie
                          /\ calls'[d].setCookie \in {None, calls[d].setCookie}
      BY <2>2, CallType DEF Receive, TypeOK, CallState
    <3>2. jar' \in {jar, None, calls[c].setCookie}
      BY <2>2 DEF Receive
    <3> QED BY <1>0, <3>1, <3>2
  <2>3. CASE Settle(c)
    BY <1>0, <2>3 DEF Settle, Idle, Ended, TypeOK
  <2> QED BY <1>3, <2>1, <2>2, <2>3 DEF Browser
<1>4. CASE CookieExpires \/ Tick \/ UNCHANGED vars
  BY <1>0, <1>4 DEF CookieExpires, Tick, vars
<1> QED BY <1>1, <1>2, <1>3, <1>4 DEF Next

-----------------------------------------------------------------------------
(* Only RevokeSession makes a sign-out with a cookie told of its success.  *)
ToldSignOut(c) ==
  calls[c].pc \in {"answered", "received"} /\ calls[c].answer = "ok" /\ calls[c].cookie # None

LEMMA SignedOutStep ==
  ASSUME Typed, CookiesHaveRows, SignedOutIsOver, [Next]_vars
  PROVE  SignedOutIsOver'
<1> USE DEF Typed
<1> SUFFICES ASSUME NEW c \in Kinds("signOut"), ToldSignOut(c)'
             PROVE  rows'[calls'[c].cookie].revoked
  BY DEF SignedOutIsOver, ToldSignOut
<1>0. c \in Call /\ c[2] = "signOut"
  BY DEF Kinds
<1>1. CASE ToldSignOut(c) /\ calls'[c].cookie = calls[c].cookie
  <2>1. calls[c].cookie \in Token /\ rows[calls[c].cookie].revoked
    BY <1>0, <1>1, CallType DEF ToldSignOut, SignedOutIsOver, CallState
  <2>2. rows[calls[c].cookie] # None
    BY <1>0, <2>1 DEF CookiesHaveRows
  <2> QED BY <1>1, <2>1, <2>2, RowsCloseStep DEF RowsClose
<1>2. ASSUME NEW d \in Call, NEW pc \in {"answered", "received"}, NEW answer \in {"denied", "failed"},
             Fail(d, pc, answer)
      PROVE  rows'[calls'[c].cookie].revoked
  <2>1. /\ \A e \in Call \ {d} : calls'[e] = calls[e]
        /\ calls'[d] = Ended(pc, answer, calls[d].at, calls[d].heard)
    BY <1>2, FailType
  <2>2. calls'[d].cookie = None
    BY <2>1 DEF Ended
  <2> QED BY <1>0, <1>1, <2>1, <2>2 DEF ToldSignOut
<1>3. ASSUME NEW d \in Call, NEW k \in Token \cup {None, Clear}, Succeed(d, k),
             d = c => calls[c].cookie = None \/ rows'[calls[c].cookie].revoked
      PROVE  rows'[calls'[c].cookie].revoked
  <2>1. /\ \A e \in Call \ {d} : calls'[e] = calls[e]
        /\ calls'[d].cookie = calls[d].cookie
    BY <1>3, CallType DEF Succeed, TypeOK, CallState
  <2> QED BY <1>0, <1>1, <1>3, <2>1 DEF ToldSignOut
<1>4. ASSUME NEW tab \in Tab, Send(tab) PROVE rows'[calls'[c].cookie].revoked
  <2>1. \A u : Sent(u).pc = "sent"
    BY DEF Sent
  <2>2. CASE Load(tab)
    <3>1. CASE c = <<tab, "restore">>
      BY <1>0, <2>2, <2>1, <3>1 DEF Load, ToldSignOut
    <3>2. CASE c # <<tab, "restore">>
      <4>1. calls'[c].pc = calls[c].pc /\ calls'[c].answer = calls[c].answer
            /\ calls'[c].cookie = calls[c].cookie
        BY <1>0, <2>2, <3>2, CallType DEF Load, CallState
      <4> QED BY <1>1, <4>1 DEF ToldSignOut
    <3> QED BY <3>1, <3>2
  <2>3. ASSUME NEW d \in Call, NEW u, calls' = [calls EXCEPT ![d] = Sent(u)]
        PROVE  rows'[calls'[c].cookie].revoked
    BY <1>0, <1>1, <2>1, <2>3 DEF TypeOK, ToldSignOut
  <2> QED BY <1>4, <2>2, <2>3 DEF Send, SendSignIn, SendSignOut, SendPrivate, CanSend
<1>5. ASSUME NEW d \in Call, Server(d) PROVE rows'[calls'[c].cookie].revoked
  <2>1. CASE NoCookie(d)
    BY <1>2, <1>3, <2>1 DEF NoCookie
  <2>2. CASE Serve(d) \/ Refuse(d)
    <3>1. CASE Refuse(d)
      BY <1>2, <3>1 DEF Refuse
    <3>2. CASE Serve(d)
      BY <1>0, <1>3, <3>2 DEF Serve, StampedFits
    <3> QED BY <2>2, <3>1, <3>2
  <2>3. CASE Stamp(d)
    <3>1. \A e \in Call : calls'[e].cookie = calls[e].cookie
                         /\ (e # d => calls'[e] = calls[e]) /\ calls'[d].pc = "stamped"
      BY <2>3, CallType DEF Stamp, TypeOK, CallState
    <3> QED BY <1>0, <1>1, <3>1 DEF ToldSignOut
  <2>4. CASE FindActiveSession(d)
    <3>1. ASSUME NEW answer \in {"denied", "failed"}, Fail(d, "answered", answer)
          PROVE  rows'[calls'[c].cookie].revoked
      BY <1>2, <3>1
    <3>2. CASE calls' = [calls EXCEPT ![d].user = rows[calls[d].cookie].user,
                           ![d].pc = IF d[2] = "private" THEN "granted" ELSE "answered",
                           ![d].answer = "ok"]
      <4>1. \A e \in Call \ {d} : calls'[e] = calls[e]
        BY <3>2 DEF TypeOK
      <4>2. c # d
        BY <1>0, <2>4 DEF FindActiveSession
      <4> QED BY <1>0, <1>1, <4>1, <4>2 DEF ToldSignOut
    <3> QED BY <2>4, <3>1, <3>2 DEF FindActiveSession
  <2>5. CASE CreateSession(d)
    BY <1>0, <1>2, <1>3, <2>5 DEF CreateSession
  <2>6. CASE RevokeSession(d)
    <3>1. calls[d].cookie \in Token /\ rows[calls[d].cookie] \in Session
      BY <2>6, CallType DEF RevokeSession, StampedFits, CallState, TypeOK, CookiesHaveRows
    <3>2. rows' = Revoked(calls[d].cookie) => rows'[calls[d].cookie].revoked
      BY <3>1 DEF Revoked, TypeOK, Session
    <3> QED BY <1>2, <1>3, <2>6, <3>2 DEF RevokeSession
  <2> QED BY <1>5, <2>1, <2>2, <2>3, <2>4, <2>5, <2>6 DEF Server
<1>6. ASSUME NEW d \in Call, Browser(d) PROVE rows'[calls'[c].cookie].revoked
  <2>1. CASE Lose(d)
    BY <1>2, <2>1 DEF Lose
  <2>2. CASE Receive(d)
    <3>1. /\ \A e \in Call \ {d} : calls'[e] = calls[e]
          /\ calls'[d].cookie = calls[d].cookie /\ calls'[d].answer = calls[d].answer
      BY <2>2, CallType DEF Receive, TypeOK, CallState
    <3>2. calls[d].pc = "answered"
      BY <2>2 DEF Receive
    <3> QED BY <1>0, <1>1, <3>1, <3>2 DEF ToldSignOut
  <2>3. CASE Settle(d)
    <3>1. \A e \in Call : calls'[e] = IF e = d THEN Idle ELSE calls[e]
      BY <2>3 DEF Settle, TypeOK
    <3>2. Idle.pc = "idle"
      BY DEF Idle, Ended
    <3> QED BY <1>0, <1>1, <3>1, <3>2 DEF ToldSignOut
  <2> QED BY <1>6, <2>1, <2>2, <2>3 DEF Browser
<1>7. CASE CookieExpires \/ Tick \/ UNCHANGED vars
  BY <1>1, <1>7 DEF ToldSignOut, CookieExpires, Tick, vars
<1> QED BY <1>4, <1>5, <1>6, <1>7 DEF Next

-----------------------------------------------------------------------------
LEMMA Inductive == Spec => []IInv
<1>1. Init => IInv
  <2>1. Init => TypeOK
    <3>1. 0 \in 0 .. MaxTime
      BY LifetimeAssumption
    <3>2. [user |-> None, loading |-> FALSE, error |-> FALSE] \in TabState
      BY DEF TabState
    <3> QED BY <3>1, <3>2, IdleType DEF Init, TypeOK
  <2>2. Idle.pc = "idle" /\ Idle.cookie = None /\ Idle.setCookie = None
    BY DEF Idle, Ended
  <2>3. Init => StampedFits /\ SignedOutIsOver
    BY <2>2 DEF Init, StampedFits, SignedOutIsOver, Kinds
  <2>4. Init => CookiesHaveRows
    BY <2>2, NoneAssumption DEF Init, CookiesHaveRows
  <2> QED BY <2>1, <2>3, <2>4 DEF IInv, Typed
<1>2. IInv /\ [Next]_vars => IInv'
  BY TypedStep, CookiesStep, SignedOutStep DEF IInv
<1> QED BY <1>1, <1>2, PTL DEF Spec

(* The rows, the cookies and the pages stay well formed. *)
THEOREM TypeCorrect == Spec => []TypeOK
BY Inductive, PTL DEF IInv, Typed

(* No cookie is ever without its row (createSessionCookie). *)
THEOREM CookiesAreBacked == Spec => []CookiesHaveRows
BY Inductive, PTL DEF IInv

(* A sign-out that is answered 204 has ended its session (Logout). *)
THEOREM SignOutEndsTheSession == Spec => []SignedOutIsOver
BY Inductive, PTL DEF IInv

(* Rows keep their user and expiry and stay revoked (RevokeSession). *)
THEOREM RevocationIsFinal == Spec => RowsOnlyClose
<1>1. IInv /\ [Next]_vars => RowsClose
  BY RowsCloseStep DEF IInv
<1> QED BY <1>1, Inductive, PTL DEF Spec, RowsOnlyClose, RowsClose

-----------------------------------------------------------------------------
(* The step simulation. What a request was told changes only at the call   *)
(* that was answered, so each lemma names the abstract action.             *)
USE DEF Told

Lives == [t \in Token |-> LifeOf(t)]
Owners == [t \in Token |-> IF rows[t] = None THEN None ELSE rows[t].user]
Deadlines == [t \in Token |-> IF rows[t] = None THEN 0 ELSE rows[t].expiresAt]
Sinces == [c \in Call |-> calls[c].at]
Vouches == [c \in Call |-> VouchedFor(c)]
Releases == [c \in Call |-> ReleasedFrom(c)]

RowsSame == UNCHANGED <<Lives, Owners, Deadlines>>
ToldSame == UNCHANGED <<Sinces, Vouches, Releases>>

LEMMA SameRows == ASSUME UNCHANGED rows PROVE RowsSame
BY DEF RowsSame, Lives, Owners, Deadlines, LifeOf

(* A request that ended is told nothing. *)
LEMMA FailForgets ==
  ASSUME Typed, NEW c \in Call, NEW pc \in {"answered", "received"},
         NEW answer \in {"denied", "failed"}, Fail(c, pc, answer)
  PROVE  /\ Sinces' = Sinces
         /\ Vouches' = [Vouches EXCEPT ![c] = None]
         /\ Releases' = [Releases EXCEPT ![c] = None]
<1>1. /\ \A d \in Call \ {c} : calls'[d] = calls[d]
      /\ calls'[c] = Ended(pc, answer, calls[c].at, calls[c].heard)
  BY FailType DEF Typed
<1>2. calls'[c].at = calls[c].at /\ calls'[c].answer # "ok"
  BY <1>1 DEF Ended
<1>3. VouchedFor(c)' = None /\ ReleasedFrom(c)' = None
  BY <1>2 DEF VouchedFor, ReleasedFrom
<1>4. \A d \in Call \ {c} : VouchedFor(d)' = VouchedFor(d) /\ ReleasedFrom(d)' = ReleasedFrom(d)
  BY <1>1 DEF VouchedFor, ReleasedFrom
<1> QED BY <1>1, <1>2, <1>3, <1>4 DEF Sinces, Vouches, Releases

LEMMA FailUntold ==
  ASSUME Typed, NEW c \in Call, NEW pc \in {"answered", "received"},
         NEW answer \in {"denied", "failed"}, Fail(c, pc, answer), ~Told(c)
  PROVE  ToldSame
<1>1. VouchedFor(c) = None /\ ReleasedFrom(c) = None
  BY DEF VouchedFor, ReleasedFrom
<1>2. [Vouches EXCEPT ![c] = None] = Vouches /\ [Releases EXCEPT ![c] = None] = Releases
  BY <1>1 DEF Vouches, Releases
<1> QED BY <1>2, FailForgets DEF ToldSame

(* A success tells a sign-out what it signed out of, and nobody else. *)
LEMMA SucceedTells ==
  ASSUME Typed, NEW c \in Call, NEW k \in Token \cup {None, Clear}, Succeed(c, k),
         calls[c].pc \in {"sent", "stamped"}, c[2] \notin {"restore", "private"}
  PROVE  /\ Sinces' = Sinces /\ Vouches' = Vouches
         /\ c[2] = "signOut" => Releases' = [Releases EXCEPT ![c] = calls[c].cookie]
         /\ c[2] # "signOut" \/ calls[c].cookie = None => Releases' = Releases
<1>1. /\ \A d \in Call \ {c} : calls'[d] = calls[d]
      /\ calls'[c].at = calls[c].at /\ calls'[c].cookie = calls[c].cookie
      /\ calls'[c].pc = "answered" /\ calls'[c].answer = "ok"
  BY CallType DEF Succeed, Typed, TypeOK, CallState
<1>2. VouchedFor(c)' = None /\ VouchedFor(c) = None
  BY <1>1 DEF VouchedFor
<1>3. ReleasedFrom(c) = None
      /\ ReleasedFrom(c)' = IF c[2] = "signOut" THEN calls[c].cookie ELSE None
  BY <1>1 DEF ReleasedFrom
<1>4. \A d \in Call \ {c} : VouchedFor(d)' = VouchedFor(d) /\ ReleasedFrom(d)' = ReleasedFrom(d)
  BY <1>1 DEF VouchedFor, ReleasedFrom
<1> QED BY <1>1, <1>2, <1>3, <1>4 DEF Sinces, Vouches, Releases

(* Steps that leave what every request was told as it is. *)
LEMMA QuietCalls ==
  ASSUME \A c \in Call : /\ calls'[c].at = calls[c].at
                         /\ VouchedFor(c)' = VouchedFor(c) /\ ReleasedFrom(c)' = ReleasedFrom(c)
  PROVE  ToldSame
BY DEF ToldSame, Sinces, Vouches, Releases

-----------------------------------------------------------------------------
(* The names above are what SessionAccess is instantiated with. *)
LEMMA Stutters == ASSUME RowsSame, ToldSame PROVE UNCHANGED Access!vars
BY DEF Access!vars, RowsSame, ToldSame, Lives, Owners, Deadlines, Sinces, Vouches, Releases

LEMMA Forgets ==
  ASSUME NEW c \in Call, RowsSame, Sinces' \in {Sinces, [Sinces EXCEPT ![c] = 0]},
         Vouches' = [Vouches EXCEPT ![c] = None], Releases' = [Releases EXCEPT ![c] = None]
  PROVE  Access!Next
<1>1. Access!Forget(c)
  BY DEF Access!Forget, RowsSame, Lives, Owners, Deadlines, Sinces, Vouches, Releases
<1> QED BY <1>1 DEF Access!Next

LEMMA Asks ==
  ASSUME NEW c \in Call, NEW now \in Time, RowsSame, Sinces' = [Sinces EXCEPT ![c] = now],
         UNCHANGED <<Vouches, Releases>>, VouchedFor(c) = None, ReleasedFrom(c) = None
  PROVE  Access!Next
<1>1. Access!Ask(c)
  BY DEF Access!Ask, RowsSame, Lives, Owners, Deadlines, Sinces, Vouches, Releases
<1> QED BY <1>1 DEF Access!Next

LEMMA Opens ==
  ASSUME NEW t \in Token, NEW u \in User, NEW d \in Time, LifeOf(t) = "unborn", ToldSame,
         Lives' = [Lives EXCEPT ![t] = "open"], Owners' = [Owners EXCEPT ![t] = u],
         Deadlines' = [Deadlines EXCEPT ![t] = d]
  PROVE  Access!Next
<1>1. Access!Open(t, u)
  BY DEF Access!Open, ToldSame, Lives, Owners, Deadlines, Sinces, Vouches, Releases
<1> QED BY <1>1 DEF Access!Next

LEMMA Closes ==
  ASSUME NEW t \in Token, LifeOf(t) = "open", ToldSame,
         Lives' = [Lives EXCEPT ![t] = "closed"], UNCHANGED <<Owners, Deadlines>>
  PROVE  Access!Next
<1>1. Access!Close(t)
  BY DEF Access!Close, ToldSame, Lives, Owners, Deadlines, Sinces, Vouches, Releases
<1> QED BY <1>1 DEF Access!Next

LEMMA VouchesFor ==
  ASSUME NEW c \in Call, NEW t \in Token, LifeOf(t) = "open", rows[t] # None,
         rows[t].expiresAt > calls[c].at, RowsSame, UNCHANGED <<Sinces, Releases>>,
         Vouches' = [Vouches EXCEPT ![c] = rows[t].user]
  PROVE  Access!Next
<1>1. Access!Vouch(c, t)
  BY DEF Access!Vouch, RowsSame, Lives, Owners, Deadlines, Sinces, Vouches, Releases
<1> QED BY <1>1 DEF Access!Next

LEMMA ReleasesFrom ==
  ASSUME NEW c \in Call, NEW t \in Token, LifeOf(t) # "unborn",
         Lives' = [Lives EXCEPT ![t] = "closed"], UNCHANGED <<Owners, Deadlines>>,
         UNCHANGED <<Sinces, Vouches>>, Releases' = [Releases EXCEPT ![c] = t]
  PROVE  Access!Next
<1>1. Access!Release(c, t)
  BY DEF Access!Release, Lives, Owners, Deadlines, Sinces, Vouches, Releases
<1> QED BY <1>1 DEF Access!Next

-----------------------------------------------------------------------------
(* A request that is not in flight carries no time. *)
IdleFits == \A c \in Call : calls[c].pc = "idle" => calls[c].at = 0

LEMMA IdleStep ==
  ASSUME Typed, IdleFits, [Next]_vars
  PROVE  IdleFits'
<1> USE DEF Typed
<1>d. ASSUME NEW c \in Call, \A d \in Call \ {c} : calls'[d] = calls[d],
             calls'[c].pc # "idle" \/ calls'[c].at = 0
      PROVE  IdleFits'
  BY <1>d DEF IdleFits
<1>f. ASSUME NEW c \in Call, NEW pc \in {"answered", "received"}, NEW answer \in {"denied", "failed"},
             Fail(c, pc, answer)
      PROVE  IdleFits'
  <2>1. /\ \A d \in Call \ {c} : calls'[d] = calls[d]
        /\ calls'[c] = Ended(pc, answer, calls[c].at, calls[c].heard)
    BY <1>f, FailType
  <2>2. calls'[c].pc # "idle"
    BY <2>1 DEF Ended
  <2> QED BY <1>d, <2>1, <2>2
<1>s. ASSUME NEW c \in Call, NEW k, Succeed(c, k) PROVE IdleFits'
  <2>1. (\A d \in Call \ {c} : calls'[d] = calls[d]) /\ calls'[c].pc = "answered"
    BY <1>s, CallType DEF Succeed, TypeOK, CallState
  <2> QED BY <1>d, <2>1
<1>1. ASSUME NEW tab \in Tab, Send(tab) PROVE IdleFits'
  <2>1. \A u : Sent(u).pc = "sent"
    BY DEF Sent
  <2>2. CASE Load(tab)
    <3>1. ASSUME NEW c \in Call
          PROVE  \/ calls'[c].pc = "sent"
                 \/ calls'[c].pc = calls[c].pc /\ calls'[c].at = calls[c].at
      <4>1. CASE c = <<tab, "restore">>
        <5>1. calls'[c] = Sent(None)
          BY <2>2, <4>1 DEF Load
        <5> QED BY <5>1, <2>1
      <4>2. CASE c # <<tab, "restore">>
        BY <2>2, <4>2, CallType DEF Load, CallState
      <4> QED BY <4>1, <4>2
    <3> QED BY <3>1 DEF IdleFits
  <2>3. ASSUME NEW d \in Call, NEW u, calls' = [calls EXCEPT ![d] = Sent(u)]
        PROVE  IdleFits'
    BY <1>d, <2>1, <2>3 DEF TypeOK
  <2> QED BY <1>1, <2>2, <2>3 DEF Send, SendSignIn, SendSignOut, SendPrivate, CanSend
<1>2. ASSUME NEW c \in Call, Server(c) PROVE IdleFits'
  <2>1. CASE NoCookie(c) \/ Serve(c) \/ Refuse(c) \/ RevokeSession(c) \/ CreateSession(c)
    BY <1>f, <1>s, <2>1 DEF NoCookie, Serve, Refuse, RevokeSession, CreateSession
  <2>2. CASE Stamp(c)
    <3>1. (\A d \in Call \ {c} : calls'[d] = calls[d]) /\ calls'[c].pc = "stamped"
      BY <2>2, CallType DEF Stamp, TypeOK, CallState
    <3> QED BY <1>d, <3>1
  <2>3. CASE FindActiveSession(c)
    <3>1. CASE calls' = [calls EXCEPT ![c].user = rows[calls[c].cookie].user,
                           ![c].pc = IF c[2] = "private" THEN "granted" ELSE "answered",
                           ![c].answer = "ok"]
      <4>1. (\A d \in Call \ {c} : calls'[d] = calls[d]) /\ calls'[c].pc \in {"granted", "answered"}
        BY <3>1, CallType DEF TypeOK, CallState
      <4> QED BY <1>d, <4>1
    <3> QED BY <1>f, <2>3, <3>1 DEF FindActiveSession
  <2> QED BY <1>2, <2>1, <2>2, <2>3 DEF Server
<1>3. ASSUME NEW c \in Call, Browser(c) PROVE IdleFits'
  <2>1. CASE Lose(c)
    BY <1>f, <2>1 DEF Lose
  <2>2. CASE Receive(c)
    <3>1. (\A d \in Call \ {c} : calls'[d] = calls[d]) /\ calls'[c].pc = "received"
      BY <2>2, CallType DEF Receive, TypeOK, CallState
    <3> QED BY <1>d, <3>1
  <2>3. CASE Settle(c)
    <3>1. (\A d \in Call \ {c} : calls'[d] = calls[d]) /\ calls'[c].at = 0
      BY <2>3 DEF Settle, TypeOK, Idle, Ended
    <3> QED BY <1>d, <3>1
  <2> QED BY <1>3, <2>1, <2>2, <2>3 DEF Browser
<1>4. CASE CookieExpires \/ Tick \/ UNCHANGED vars
  BY <1>4 DEF CookieExpires, Tick, vars, IdleFits
<1> QED BY <1>1, <1>2, <1>3, <1>4 DEF Next

-----------------------------------------------------------------------------
LEMMA SendSimulates ==
  ASSUME Typed, IdleFits, NEW tab \in Tab, Send(tab)
  PROVE  UNCHANGED Access!vars
<1> USE DEF Typed
<1>0. RowsSame
  BY SameRows DEF Send, Load, SendSignIn, SendSignOut, SendPrivate
<1>1. \A u : Sent(u).pc = "sent" /\ Sent(u).at = 0
  BY DEF Sent
<1>2. CASE Load(tab)
  <2>1. ASSUME NEW c \in Call
        PROVE  /\ calls'[c].at = calls[c].at
               /\ VouchedFor(c)' = VouchedFor(c) /\ ReleasedFrom(c)' = ReleasedFrom(c)
    <3>1. CASE c = <<tab, "restore">>
      <4>1. calls[c].pc = "idle" /\ calls[c].at = 0 /\ calls'[c].pc = "sent" /\ calls'[c].at = 0
        BY <1>1, <1>2, <3>1 DEF Load, CanSend, InFlight, IdleFits
      <4> QED BY <4>1 DEF VouchedFor, ReleasedFrom
    <3>2. CASE c # <<tab, "restore">>
      <4>1. /\ calls'[c].at = calls[c].at /\ calls'[c].pc = calls[c].pc
            /\ calls'[c].answer = calls[c].answer /\ calls'[c].user = calls[c].user
            /\ calls'[c].cookie = calls[c].cookie
        BY <1>2, <3>2, CallType DEF Load, CallState
      <4> QED BY <4>1 DEF VouchedFor, ReleasedFrom
    <3> QED BY <3>1, <3>2
  <2> QED BY <1>0, <2>1, QuietCalls, Stutters
<1>3. ASSUME NEW d \in Call, NEW u, CanSend(d), calls' = [calls EXCEPT ![d] = Sent(u)]
      PROVE  UNCHANGED Access!vars
  <2>1. calls[d].pc = "idle" /\ calls[d].at = 0
    BY <1>3 DEF CanSend, InFlight, IdleFits
  <2>2. \A c \in Call : calls'[c] = IF c = d THEN Sent(u) ELSE calls[c]
    BY <1>3 DEF TypeOK
  <2>3. ASSUME NEW c \in Call
        PROVE  /\ calls'[c].at = calls[c].at
               /\ VouchedFor(c)' = VouchedFor(c) /\ ReleasedFrom(c)' = ReleasedFrom(c)
    BY <1>1, <2>1, <2>2 DEF VouchedFor, ReleasedFrom
  <2> QED BY <1>0, <2>3, QuietCalls, Stutters
<1> QED BY <1>2, <1>3 DEF Send, SendSignIn, SendSignOut, SendPrivate, CanSend

LEMMA ServerSimulates ==
  ASSUME Typed, CookiesHaveRows, NEW c \in Call, Server(c)
  PROVE  Access!Next \/ UNCHANGED Access!vars
<1> USE DEF Typed
<1>f. ASSUME RowsSame, calls[c].pc \in {"sent", "stamped"},
             NEW answer \in {"denied", "failed"}, Fail(c, "answered", answer)
      PROVE  UNCHANGED Access!vars
  BY <1>f, FailUntold, Stutters
<1>1. CASE NoCookie(c)
  <2>1. RowsSame
    BY <1>1, SameRows DEF NoCookie
  <2>2. ASSUME Succeed(c, Clear), c[2] = "signOut" PROVE UNCHANGED Access!vars
    <3>1. ToldSame
      BY <1>1, <2>2, SucceedTells DEF NoCookie, ToldSame
    <3> QED BY <2>1, <3>1, Stutters
  <2> QED BY <1>1, <1>f, <2>1, <2>2 DEF NoCookie
<1>2. CASE Stamp(c)
  <2>1. /\ \A d \in Call \ {c} : calls'[d] = calls[d]
        /\ calls'[c].pc = "stamped" /\ calls'[c].at = clock /\ calls[c].pc = "sent"
    BY <1>2, CallType DEF Stamp, TypeOK, CallState
  <2>2. \A d \in Call : VouchedFor(d)' = VouchedFor(d) /\ ReleasedFrom(d)' = ReleasedFrom(d)
    BY <2>1 DEF VouchedFor, ReleasedFrom
  <2>3. UNCHANGED <<Vouches, Releases>>
    BY <2>2 DEF Vouches, Releases
  <2>4. Sinces' = [Sinces EXCEPT ![c] = clock]
    BY <2>1 DEF Sinces
  <2>5. clock \in Time /\ VouchedFor(c) = None /\ ReleasedFrom(c) = None
    BY <2>1, LifetimeAssumption DEF TypeOK, Time, VouchedFor, ReleasedFrom
  <2>6. RowsSame
    BY <1>2, SameRows DEF Stamp
  <2> QED BY <2>3, <2>4, <2>5, <2>6, Asks
<1>3. CASE FindActiveSession(c)
  <2> DEFINE t == calls[c].cookie
  <2>1. RowsSame
    BY <1>3, SameRows DEF FindActiveSession
  <2>2. CASE Active(t, calls[c].at) /\ calls' =
               [calls EXCEPT ![c].user = rows[t].user,
                             ![c].pc = IF c[2] = "private" THEN "granted" ELSE "answered",
                             ![c].answer = "ok"]
    <3>1. t \in Token /\ rows[t] # None /\ LifeOf(t) = "open" /\ rows[t].expiresAt > calls[c].at
      BY <1>3, <2>2, CallType DEF FindActiveSession, Active, StampedFits, CallState, LifeOf
    <3>2. /\ \A d \in Call \ {c} : calls'[d] = calls[d]
          /\ calls'[c].pc \in {"granted", "answered"} /\ calls'[c].at = calls[c].at
          /\ calls'[c].answer = "ok" /\ calls'[c].user = rows[t].user
      BY <2>2, CallType DEF TypeOK, CallState
    <3>3. VouchedFor(c)' = rows[t].user /\ ReleasedFrom(c)' = None /\ ReleasedFrom(c) = None
      BY <1>3, <3>2 DEF FindActiveSession, VouchedFor, ReleasedFrom
    <3>4. \A d \in Call \ {c} : VouchedFor(d)' = VouchedFor(d) /\ ReleasedFrom(d)' = ReleasedFrom(d)
      BY <3>2 DEF VouchedFor, ReleasedFrom
    <3>5. Vouches' = [Vouches EXCEPT ![c] = rows[t].user]
      BY <3>3, <3>4 DEF Vouches
    <3>6. UNCHANGED <<Sinces, Releases>>
      BY <3>2, <3>3, <3>4 DEF Sinces, Releases
    <3> HIDE DEF t
    <3> QED BY <2>1, <3>1, <3>5, <3>6, VouchesFor
  <2> QED BY <1>3, <1>f, <2>1, <2>2 DEF FindActiveSession
<1>4. CASE Serve(c)
  <2>1. RowsSame
    BY <1>4, SameRows DEF Serve
  <2>2. c[2] = "private" /\ calls[c].answer = "ok" /\ calls[c].pc = "granted"
    BY <1>4 DEF Serve, StampedFits
  <2>3. /\ \A d \in Call \ {c} : calls'[d] = calls[d]
        /\ calls'[c].at = calls[c].at /\ calls'[c].user = calls[c].user
        /\ calls'[c].pc = "answered" /\ calls'[c].answer = "ok"
    BY <1>4, CallType DEF Serve, Succeed, TypeOK, CallState
  <2>4. \A d \in Call : /\ calls'[d].at = calls[d].at
                        /\ VouchedFor(d)' = VouchedFor(d) /\ ReleasedFrom(d)' = ReleasedFrom(d)
    BY <2>2, <2>3 DEF VouchedFor, ReleasedFrom
  <2> QED BY <2>1, <2>4, QuietCalls, Stutters
<1>5. CASE CreateSession(c)
  <2>1. ASSUME NEW t \in Token, rows[t] = None,
               rows' = [rows EXCEPT ![t] = [user |-> calls[c].user,
                                            expiresAt |-> calls[c].at + Lifetime,
                                            revoked |-> FALSE]],
               Succeed(c, t) \/ Fail(c, "answered", "failed")
        PROVE  Access!Next
    <3>1. calls[c].user \in User /\ calls[c].at + Lifetime \in Time
      BY <1>5, CallType, LifetimeAssumption DEF CreateSession, StampedFits, CallState, Time
    <3>2. \A k \in Token \ {t} : rows'[k] = rows[k]
      BY <2>1 DEF TypeOK
    <3>3. rows'[t].user = calls[c].user /\ rows'[t].expiresAt = calls[c].at + Lifetime
          /\ ~rows'[t].revoked /\ rows'[t] \in Session
      BY <2>1, <3>1 DEF TypeOK, Session
    <3>4. rows'[t] # None
      BY <3>3, NoneAssumption
    <3>5. LifeOf(t) = "unborn" /\ LifeOf(t)' = "open"
      BY <2>1, <3>3, <3>4 DEF LifeOf
    <3>6. \A k \in Token \ {t} : LifeOf(k)' = LifeOf(k)
      BY <3>2 DEF LifeOf
    <3>7. /\ Lives' = [Lives EXCEPT ![t] = "open"]
          /\ Owners' = [Owners EXCEPT ![t] = calls[c].user]
          /\ Deadlines' = [Deadlines EXCEPT ![t] = calls[c].at + Lifetime]
      BY <3>2, <3>3, <3>4, <3>5, <3>6 DEF Lives, Owners, Deadlines
    <3>8. ToldSame
      <4>1. CASE Fail(c, "answered", "failed")
        BY <1>5, <4>1, FailUntold DEF CreateSession
      <4>2. CASE Succeed(c, t)
        BY <1>5, <4>2, SucceedTells DEF CreateSession, ToldSame
      <4> QED BY <2>1, <4>1, <4>2
    <3> QED BY <3>1, <3>5, <3>7, <3>8, Opens
  <2> QED BY <1>5, <1>f, <2>1, SameRows DEF CreateSession
<1>6. CASE Refuse(c)
  BY <1>6, <1>f, SameRows DEF Refuse
<1>7. CASE RevokeSession(c)
  <2>0. PICK t \in Token : t = calls[c].cookie
    BY <1>7, CallType DEF RevokeSession, StampedFits, CallState
  <2>1. rows[t] \in Session /\ rows[t] # None
    BY <2>0 DEF TypeOK, CookiesHaveRows
  <2>2. CASE UNCHANGED rows /\ Fail(c, "answered", "failed")
    BY <1>7, <1>f, <2>2, SameRows DEF RevokeSession
  <2>3. ASSUME rows' = Revoked(t)
        PROVE  /\ Lives' = [Lives EXCEPT ![t] = "closed"] /\ UNCHANGED <<Owners, Deadlines>>
               /\ LifeOf(t) # "unborn" /\ (LifeOf(t) = "closed" => RowsSame)
    <3>1. \A k \in Token \ {t} : rows'[k] = rows[k]
      BY <2>1, <2>3 DEF Revoked, TypeOK
    <3>2. /\ rows'[t].user = rows[t].user /\ rows'[t].expiresAt = rows[t].expiresAt
          /\ rows'[t].revoked /\ rows'[t] \in Session
      BY <2>1, <2>3 DEF Revoked, TypeOK, Session
    <3>3. rows'[t] # None
      BY <3>2, NoneAssumption
    <3>4. LifeOf(t)' = "closed" /\ LifeOf(t) # "unborn"
      BY <2>1, <3>2, <3>3 DEF LifeOf
    <3>5. \A k \in Token \ {t} : LifeOf(k)' = LifeOf(k)
      BY <3>1 DEF LifeOf
    <3>6. Lives' = [Lives EXCEPT ![t] = "closed"]
      BY <3>4, <3>5 DEF Lives
    <3>7. UNCHANGED <<Owners, Deadlines>>
      BY <2>1, <3>1, <3>2, <3>3 DEF Owners, Deadlines
    <3>8. LifeOf(t) = "closed" => Lives' = Lives
      BY <3>6 DEF Lives
    <3> QED BY <3>4, <3>6, <3>7, <3>8 DEF RowsSame
  <2>4. CASE rows' = Revoked(t) /\ Succeed(c, Clear)
    <3>1. UNCHANGED <<Sinces, Vouches>> /\ Releases' = [Releases EXCEPT ![c] = t]
      BY <1>7, <2>0, <2>4, SucceedTells DEF RevokeSession
    <3> QED BY <2>1, <2>3, <2>4, <3>1, ReleasesFrom
  <2>5. CASE rows' = Revoked(t) /\ Fail(c, "answered", "failed")
    <3>1. ToldSame
      BY <1>7, <2>5, FailUntold DEF RevokeSession
    <3>2. LifeOf(t) \in {"open", "closed"}
      BY <2>3, <2>5 DEF LifeOf
    <3> QED BY <2>1, <2>3, <2>5, <3>1, <3>2, Closes, Stutters
  <2> QED BY <1>7, <2>0, <2>2, <2>4, <2>5 DEF RevokeSession
<1> QED BY <1>1, <1>2, <1>3, <1>4, <1>5, <1>6, <1>7 DEF Server

LEMMA BrowserSimulates ==
  ASSUME Typed, IdleFits, NEW c \in Call, Browser(c)
  PROVE  Access!Next \/ UNCHANGED Access!vars
<1> USE DEF Typed
<1>0. RowsSame
  BY SameRows DEF Browser, Lose, Receive, Settle
<1>1. CASE Lose(c)
  <2>1. /\ Sinces' = Sinces
        /\ Vouches' = [Vouches EXCEPT ![c] = None] /\ Releases' = [Releases EXCEPT ![c] = None]
    BY <1>1, FailForgets DEF Lose
  <2> QED BY <1>0, <2>1, Forgets
<1>2. CASE Receive(c)
  <2>1. /\ \A d \in Call \ {c} : calls'[d] = calls[d]
        /\ calls'[c].at = calls[c].at /\ calls'[c].user = calls[c].user
        /\ calls'[c].cookie = calls[c].cookie /\ calls'[c].answer = calls[c].answer
        /\ calls'[c].pc = "received" /\ calls[c].pc = "answered"
    BY <1>2, CallType DEF Receive, TypeOK, CallState
  <2>2. \A d \in Call : /\ calls'[d].at = calls[d].at
                        /\ VouchedFor(d)' = VouchedFor(d) /\ ReleasedFrom(d)' = ReleasedFrom(d)
    BY <2>1 DEF VouchedFor, ReleasedFrom
  <2> QED BY <1>0, <2>2, QuietCalls, Stutters
<1>3. CASE Settle(c)
  <2>1. /\ \A d \in Call \ {c} : calls'[d] = calls[d]
        /\ calls'[c].at = 0 /\ calls'[c].pc = "idle"
    BY <1>3 DEF Settle, TypeOK, Idle, Ended
  <2>2. /\ VouchedFor(c)' = None /\ ReleasedFrom(c)' = None
        /\ \A d \in Call \ {c} : VouchedFor(d)' = VouchedFor(d) /\ ReleasedFrom(d)' = ReleasedFrom(d)
    BY <2>1 DEF VouchedFor, ReleasedFrom
  <2>3. Sinces' = [Sinces EXCEPT ![c] = 0]
    BY <2>1 DEF Sinces
  <2>4. Vouches' = [Vouches EXCEPT ![c] = None] /\ Releases' = [Releases EXCEPT ![c] = None]
    BY <2>2 DEF Vouches, Releases
  <2> QED BY <1>0, <2>3, <2>4, Forgets
<1> QED BY <1>1, <1>2, <1>3 DEF Browser

LEMMA QuietRest ==
  ASSUME CookieExpires \/ Tick \/ UNCHANGED vars
  PROVE  UNCHANGED Access!vars
<1>1. UNCHANGED <<rows, calls>>
  BY DEF CookieExpires, Tick, vars
<1>2. \A c : VouchedFor(c)' = VouchedFor(c) /\ ReleasedFrom(c)' = ReleasedFrom(c)
  BY <1>1 DEF VouchedFor, ReleasedFrom
<1>3. ToldSame
  BY <1>1, <1>2, QuietCalls
<1> QED BY <1>1, <1>3, SameRows, Stutters

(* The session store keeps the promise of SessionAccess: sessions open and *)
(* close once, a request acts only as the user of a session that was open  *)
(* when it was looked up, and a sign-out that is told of success closed it.*)
THEOREM SessionsImplementAccess == Spec => Implements
<1>1. Init => Access!Init
  <2>1. Idle.pc = "idle" /\ Idle.at = 0
    BY DEF Idle, Ended
  <2> QED BY <2>1 DEF Init, Access!Init, LifeOf, VouchedFor, ReleasedFrom
<1>2. Init => IdleFits
  BY DEF Init, IdleFits, Idle, Ended
<1>3. IInv /\ IdleFits /\ [Next]_vars => IdleFits'
  BY IdleStep DEF IInv
<1>4. IInv /\ IdleFits /\ [Next]_vars => [Access!Next]_(Access!vars)
  <2> SUFFICES ASSUME Typed, CookiesHaveRows, IdleFits, [Next]_vars
               PROVE  Access!Next \/ UNCHANGED Access!vars
    BY DEF IInv
  <2>1. ASSUME NEW tab \in Tab, Send(tab) PROVE UNCHANGED Access!vars
    BY <2>1, SendSimulates
  <2>2. ASSUME NEW c \in Call, Server(c) \/ Browser(c)
        PROVE  Access!Next \/ UNCHANGED Access!vars
    BY <2>2, ServerSimulates, BrowserSimulates
  <2> QED BY <2>1, <2>2, QuietRest DEF Next
<1> QED BY <1>1, <1>2, <1>3, <1>4, Inductive, PTL DEF Spec, Implements, Access!Spec


-----------------------------------------------------------------------------
(* One page. With a single tab, and until a restoration meets another      *)
(* request, a request in flight fits what the page shows: a restoration is *)
(* alone and nobody is shown, a sign-in is made while nobody is shown and  *)
(* a sign-out while somebody is. So a sign-in and a sign-out, the two that *)
(* move the cookie, are never in flight together.                          *)
Owns(u, t) == t # None => rows[t].user = u

CookieFits(c) ==
  /\ calls[c].setCookie # None => calls[c].pc = "answered"
  /\ calls[c].setCookie = Clear => c[2] = "signOut"
  /\ calls[c].setCookie \in Token => c[2] = "signIn" /\ calls[c].answer = "ok"

RestoreFits(c) ==
  /\ tabs[c[1]].loading /\ tabs[c[1]].user = None
  /\ \A d \in Call \ {c} : calls[d].pc = "idle"
  /\ calls[c].pc \in {"sent", "stamped"} \/ calls[c].answer = "ok" => jar \in {None, calls[c].cookie}
  /\ calls[c].answer = "ok" => calls[c].cookie # None /\ Owns(calls[c].user, calls[c].cookie)

SignInFits(c) ==
  /\ tabs[c[1]].user = None
  /\ \A d \in Kinds("signOut") : calls[d].pc = "idle"
  /\ calls[c].answer = "ok" =>
       /\ calls[c].pc = "answered" => calls[c].setCookie \in Token /\ Owns(calls[c].user, calls[c].setCookie)
       /\ calls[c].pc = "received" => Owns(calls[c].user, jar)

CallFits(c) ==
  calls[c].pc # "idle" =>
    /\ calls[c].heard /\ CookieFits(c)
    /\ calls[c].pc \in {"sent", "stamped"} => calls[c].answer = "failed"
    /\ c[2] = "restore" => RestoreFits(c)
    /\ c[2] = "signIn" => SignInFits(c)
    /\ c[2] = "signOut" => tabs[c[1]].user # None

PageFits ==
  ~overlap => /\ \A c \in Call : CallFits(c)
              /\ \A tab \in Tab : tabs[tab].user # None => Owns(tabs[tab].user, jar)

(* What the proofs of this section start from. *)
OnePage == Typed /\ CookiesHaveRows /\ PageFits /\ ~overlap

LEMMA OwnsStays ==
  ASSUME Typed, CookiesHaveRows, RowsClose, NEW u, NEW t \in Token \cup {None, Clear},
         t \in Token => rows[t] # None, t # Clear, Owns(u, t)
  PROVE  Owns(u, t)'
BY DEF RowsClose, Owns

LEMMA CookieRows ==
  ASSUME Typed, CookiesHaveRows, NEW c \in Call
  PROVE  /\ calls[c].setCookie \in Token => rows[calls[c].setCookie] # None
         /\ calls[c].cookie \in Token => rows[calls[c].cookie] # None
         /\ jar \in Token => rows[jar] # None
         /\ jar \in Token \cup {None} /\ calls[c].cookie \in Token \cup {None}
         /\ calls[c].setCookie \in Token \cup {None, Clear} /\ Clear \notin Token /\ Clear # None
         /\ None \notin Token /\ calls[c] \in CallState
BY CallType, NoneAssumption DEF Typed, TypeOK, CookiesHaveRows, CallState

(* A step of request c that shows nobody else leaves the others as they    *)
(* fit, whether or not the jar loses its cookie.                           *)
LEMMA OthersFit ==
  ASSUME Typed, CookiesHaveRows, RowsClose, NEW c \in Call, calls[c].pc # "idle",
         \A e \in Call \ {c} : calls'[e] = calls[e],
         tabs' = tabs, jar' \in {jar, None}, NEW d \in Call \ {c}, CallFits(d)
  PROVE  CallFits(d)'
<1> SUFFICES ASSUME calls[d].pc # "idle" PROVE CallFits(d)'
  BY DEF CallFits
<1>1. calls'[d] = calls[d]
  OBVIOUS
<1>2. /\ calls[d].heard /\ CookieFits(d)
      /\ calls[d].pc \in {"sent", "stamped"} => calls[d].answer = "failed"
      /\ d[2] = "restore" => RestoreFits(d)
      /\ d[2] = "signIn" => SignInFits(d)
      /\ d[2] = "signOut" => tabs[d[1]].user # None
  BY DEF CallFits
<1>3. CookieFits(d)'
  BY <1>1, <1>2 DEF CookieFits
<1>4. d[2] # "restore"
  BY <1>2 DEF RestoreFits
<1>5. ASSUME d[2] = "signIn" PROVE SignInFits(d)'
  <2>1. SignInFits(d)
    BY <1>2, <1>5
  <2>2. \A e \in Kinds("signOut") : calls'[e].pc = "idle"
    BY <2>1 DEF SignInFits, Kinds
  <2>3. ASSUME calls[d].answer = "ok", calls[d].pc = "answered"
        PROVE  calls[d].setCookie \in Token /\ Owns(calls[d].user, calls[d].setCookie)'
    <3>1. calls[d].setCookie \in Token /\ Owns(calls[d].user, calls[d].setCookie)
      BY <2>1, <2>3 DEF SignInFits
    <3>2. calls'[d].setCookie \in Token /\ rows[calls[d].setCookie] # None
      BY <1>1, <3>1, CookieRows
    <3>3. rows'[calls[d].setCookie].user = rows[calls[d].setCookie].user
      BY <3>1, <3>2 DEF RowsClose
    <3>4. QED BY <1>1, <3>1, <3>3 DEF Owns
  <2>4. ASSUME calls[d].answer = "ok", calls[d].pc = "received" PROVE Owns(calls[d].user, jar)'
    <3>1. Owns(calls[d].user, jar)
      BY <2>1, <2>4 DEF SignInFits
    <3>2. jar \in Token => rows'[jar].user = rows[jar].user
      BY CookieRows DEF RowsClose
    <3>3. QED BY <1>1, <3>1, <3>2, CookieRows DEF Owns
  <2>5. QED BY <1>1, <2>1, <2>2, <2>3, <2>4 DEF SignInFits
<1>6. QED BY <1>1, <1>2, <1>3, <1>4, <1>5 DEF CallFits

(* The page keeps showing the cookie's user while it is not touched.       *)
LEMMA PageStays ==
  ASSUME Typed, CookiesHaveRows, RowsClose, tabs' = tabs, jar' \in {jar, None},
         \A tab \in Tab : tabs[tab].user # None => Owns(tabs[tab].user, jar)
  PROVE  \A tab \in Tab : tabs'[tab].user # None => Owns(tabs[tab].user, jar)'
<1> SUFFICES ASSUME NEW tab \in Tab, tabs[tab].user # None PROVE Owns(tabs[tab].user, jar)'
  OBVIOUS
<1>1. jar \in Token \cup {None} /\ Owns(tabs[tab].user, jar)
  BY DEF Typed, TypeOK
<1>2. jar \in Token => rows[jar] # None
  BY NoneAssumption DEF CookiesHaveRows
<1>3. jar \in Token => rows'[jar].user = rows[jar].user
  BY <1>2 DEF RowsClose
<1>4. QED BY <1>1, <1>3 DEF Owns

(* A request that ended badly fits as before, and says nothing.            *)
LEMMA FailFits ==
  ASSUME Typed, NEW c \in Call, calls[c].pc # "idle", CallFits(c),
         NEW pc \in {"answered", "received"}, NEW answer \in {"denied", "failed"},
         Fail(c, pc, answer), tabs' = tabs
  PROVE  CallFits(c)' /\ \A e \in Call \ {c} : calls'[e] = calls[e]
<1>1. /\ \A e \in Call \ {c} : calls'[e] = calls[e]
      /\ calls'[c] = Ended(pc, answer, calls[c].at, calls[c].heard)
  BY FailType DEF Typed
<1>2. /\ calls'[c].pc = pc /\ calls'[c].answer = answer /\ calls'[c].setCookie = None
      /\ calls'[c].heard = calls[c].heard
  BY <1>1 DEF Ended
<1>3. CookieFits(c)'
  BY <1>2, NoneAssumption DEF CookieFits
<1>4. calls'[c].pc \notin {"sent", "stamped"} /\ calls'[c].answer # "ok"
  BY <1>2
<1>5. c[2] = "restore" => RestoreFits(c)'
  BY <1>1, <1>4 DEF CallFits, RestoreFits
<1>6. ASSUME c[2] = "signIn" PROVE SignInFits(c)'
  <2>1. SignInFits(c) /\ c \notin Kinds("signOut")
    BY <1>6 DEF CallFits, Kinds
  <2>2. \A d \in Kinds("signOut") : calls'[d].pc = "idle"
    BY <1>1, <2>1 DEF SignInFits, Kinds
  <2>3. QED BY <1>4, <2>1, <2>2 DEF SignInFits
<1>7. QED BY <1>1, <1>2, <1>3, <1>4, <1>5, <1>6 DEF CallFits

(* What is common to the steps of one request that leave page and jar.     *)
LEMMA StepFits ==
  ASSUME OnePage, RowsClose, NEW c \in Call, calls[c].pc # "idle", CallFits(c)',
         \A e \in Call \ {c} : calls'[e] = calls[e],
         tabs' = tabs, jar' = jar
  PROVE  PageFits'
<1>1. /\ \A d \in Call : CallFits(d)
      /\ \A tab \in Tab : tabs[tab].user # None => Owns(tabs[tab].user, jar)
  BY DEF OnePage, PageFits
<1>2. \A d \in Call \ {c} : CallFits(d)'
  BY <1>1, OthersFit DEF OnePage
<1>3. \A tab \in Tab : tabs'[tab].user # None => Owns(tabs[tab].user, jar)'
  BY <1>1, PageStays DEF OnePage
<1>4. QED BY <1>2, <1>3 DEF PageFits

LEMMA SucceedFits ==
  ASSUME OnePage, NEW c \in Call, calls[c].pc # "idle", CallFits(c),
         NEW k \in Token \cup {None, Clear}, Succeed(c, k), tabs' = tabs,
         \/ c[2] = "signOut" /\ k = Clear
         \/ c[2] = "private" /\ k = None
         \/ c[2] = "signIn" /\ k \in Token /\ rows'[k].user = calls[c].user
  PROVE  CallFits(c)' /\ \A e \in Call \ {c} : calls'[e] = calls[e]
<1>1. /\ \A e \in Call \ {c} : calls'[e] = calls[e]
      /\ calls'[c].pc = "answered" /\ calls'[c].answer = "ok" /\ calls'[c].setCookie = k
      /\ calls'[c].heard = calls[c].heard /\ calls'[c].user = calls[c].user
  BY CallType DEF OnePage, Typed, TypeOK, CallState, Succeed
<1>2. CookieFits(c)'
  BY <1>1, NoneAssumption DEF CookieFits
<1>3. ASSUME c[2] = "signIn" PROVE SignInFits(c)'
  <2>1. SignInFits(c) /\ c \notin Kinds("signOut") /\ k \in Token /\ rows'[k].user = calls[c].user
    BY <1>3 DEF CallFits, Kinds
  <2>2. \A d \in Kinds("signOut") : calls'[d].pc = "idle"
    BY <1>1, <2>1 DEF SignInFits, Kinds
  <2>3. QED BY <1>1, <2>1, <2>2 DEF SignInFits, Owns
<1>4. calls'[c].pc \notin {"sent", "stamped"} /\ c[2] # "restore"
  BY <1>1
<1>5. QED BY <1>1, <1>2, <1>3, <1>4 DEF CallFits

LEMMA StampFits ==
  ASSUME OnePage, NEW c \in Call, CallFits(c), Stamp(c)
  PROVE  CallFits(c)' /\ \A e \in Call \ {c} : calls'[e] = calls[e]
<1>1. /\ \A e \in Call \ {c} : calls'[e] = calls[e]
      /\ calls'[c].pc = "stamped" /\ calls'[c].answer = calls[c].answer
      /\ calls'[c].setCookie = calls[c].setCookie /\ calls'[c].cookie = calls[c].cookie
      /\ calls'[c].heard = calls[c].heard /\ calls'[c].user = calls[c].user
      /\ calls[c].pc = "sent" /\ tabs' = tabs /\ jar' = jar
  BY CallType DEF OnePage, Typed, Stamp, TypeOK, CallState
<1>2. calls[c].answer = "failed" /\ calls[c].setCookie = None /\ calls[c].heard
  BY <1>1 DEF CallFits, CookieFits
<1>3. CookieFits(c)'
  BY <1>1, <1>2, NoneAssumption DEF CookieFits
<1>4. c[2] = "restore" => RestoreFits(c)'
  BY <1>1, <1>2 DEF CallFits, RestoreFits
<1>5. ASSUME c[2] = "signIn" PROVE SignInFits(c)'
  <2>1. SignInFits(c) /\ c \notin Kinds("signOut")
    BY <1>1, <1>5 DEF CallFits, Kinds
  <2>2. \A d \in Kinds("signOut") : calls'[d].pc = "idle"
    BY <1>1, <2>1 DEF SignInFits, Kinds
  <2>3. QED BY <1>1, <1>2, <2>1, <2>2 DEF SignInFits
<1>6. QED BY <1>1, <1>2, <1>3, <1>4, <1>5 DEF CallFits

LEMMA FoundFits ==
  ASSUME OnePage, RowsClose, NEW c \in Call, CallFits(c), FindActiveSession(c)
  PROVE  CallFits(c)' /\ \A e \in Call \ {c} : calls'[e] = calls[e]
<1> DEFINE t == calls[c].cookie
<1>1. calls[c].pc = "stamped" /\ c[2] \in {"restore", "private"} /\ tabs' = tabs /\ rows' = rows
      /\ jar' = jar
  BY DEF FindActiveSession
<1>2. CASE Fail(c, "answered", "denied") \/ Fail(c, "answered", "failed")
  BY <1>1, <1>2, FailFits DEF OnePage
<1>3. CASE Active(t, calls[c].at) /\ calls' =
             [calls EXCEPT ![c].user = rows[t].user,
                           ![c].pc = IF c[2] = "private" THEN "granted" ELSE "answered",
                           ![c].answer = "ok"]
  <2>1. /\ \A e \in Call \ {c} : calls'[e] = calls[e]
        /\ calls'[c].pc \in {"granted", "answered"} /\ calls'[c].answer = "ok"
        /\ calls'[c].setCookie = calls[c].setCookie /\ calls'[c].cookie = t
        /\ calls'[c].heard = calls[c].heard /\ calls'[c].user = rows[t].user
    BY <1>3, CallType DEF OnePage, Typed, TypeOK, CallState
  <2>2. calls[c].setCookie = None /\ calls[c].heard /\ t # None
    BY <1>1 DEF CallFits, CookieFits, OnePage, Typed, StampedFits
  <2>3. CookieFits(c)'
    BY <2>1, <2>2, NoneAssumption DEF CookieFits
  <2>4. c[2] = "restore" => RestoreFits(c)'
    BY <1>1, <2>1, <2>2 DEF CallFits, RestoreFits, Owns
  <2>5. c[2] # "signIn" /\ c[2] # "signOut" /\ calls'[c].pc \notin {"sent", "stamped"}
    BY <1>1, <2>1
  <2>6. QED BY <2>1, <2>2, <2>3, <2>4, <2>5 DEF CallFits
<1>4. QED BY <1>2, <1>3 DEF FindActiveSession

LEMMA ServerFits ==
  ASSUME OnePage, RowsClose, NEW c \in Call, Server(c)
  PROVE  PageFits'
<1>1. tabs' = tabs /\ jar' = jar /\ CallFits(c)
  BY DEF OnePage, PageFits, Server, NoCookie, Stamp, FindActiveSession, Serve, CreateSession,
         Refuse, RevokeSession
<1>2. calls[c].pc # "idle"
  BY DEF Server, NoCookie, Stamp, FindActiveSession, Serve, CreateSession, Refuse, RevokeSession
<1>f. ASSUME NEW pc \in {"answered", "received"}, NEW answer \in {"denied", "failed"},
             Fail(c, pc, answer)
      PROVE  CallFits(c)' /\ \A e \in Call \ {c} : calls'[e] = calls[e]
  BY <1>1, <1>2, <1>f, FailFits DEF OnePage
<1>3. CallFits(c)' /\ \A e \in Call \ {c} : calls'[e] = calls[e]
  <2>1. CASE NoCookie(c)
    BY <1>1, <1>2, <1>f, <2>1, SucceedFits DEF NoCookie
  <2>2. CASE Stamp(c)
    BY <1>1, <2>2, StampFits
  <2>3. CASE FindActiveSession(c)
    BY <1>1, <2>3, FoundFits
  <2>4. CASE Serve(c)
    <3>1. c[2] = "private" /\ Succeed(c, None)
      BY <2>4 DEF Serve, OnePage, Typed, StampedFits
    <3>2. QED BY <1>1, <1>2, <3>1, SucceedFits
  <2>5. CASE CreateSession(c)
    <3>1. ASSUME NEW t \in Token, Succeed(c, t),
                 rows' = [rows EXCEPT ![t] = [user |-> calls[c].user,
                                              expiresAt |-> calls[c].at + Lifetime,
                                              revoked |-> FALSE]]
          PROVE  CallFits(c)' /\ \A e \in Call \ {c} : calls'[e] = calls[e]
      <4>1. rows'[t].user = calls[c].user
        BY <3>1 DEF OnePage, Typed, TypeOK
      <4>2. c[2] = "signIn"
        BY <2>5 DEF CreateSession
      <4>3. QED BY <1>1, <1>2, <3>1, <4>1, <4>2, SucceedFits
    <3>2. QED BY <1>f, <2>5, <3>1 DEF CreateSession
  <2>6. CASE Refuse(c)
    BY <1>f, <2>6 DEF Refuse
  <2>7. CASE RevokeSession(c)
    BY <1>1, <1>2, <1>f, <2>7, SucceedFits DEF RevokeSession
  <2>8. QED BY <2>1, <2>2, <2>3, <2>4, <2>5, <2>6, <2>7 DEF Server
<1>4. QED BY <1>1, <1>2, <1>3, StepFits

LEMMA LoseFits ==
  ASSUME OnePage, RowsClose, NEW c \in Call, Lose(c)
  PROVE  PageFits'
<1>1. tabs' = tabs /\ jar' = jar /\ CallFits(c) /\ calls[c].pc # "idle"
      /\ Fail(c, "received", "failed")
  BY DEF OnePage, PageFits, Lose
<1>2. CallFits(c)' /\ \A e \in Call \ {c} : calls'[e] = calls[e]
  BY <1>1, FailFits DEF OnePage
<1>3. QED BY <1>1, <1>2, StepFits

(* The answer that arrives may replace the cookie. A restoration and a     *)
(* private request leave it, a sign-out has none of the others to disturb  *)
(* and removes it, a sign-in brings the one of its user while nobody is    *)
(* shown.                                                                  *)
LEMMA ReceiveFits ==
  ASSUME NEW one, Tab = {one}, OnePage, RowsClose, NEW c \in Call, Receive(c)
  PROVE  PageFits'
<1>1. /\ tabs' = tabs /\ rows' = rows /\ calls[c].pc = "answered" /\ CallFits(c)
      /\ calls[c].heard /\ CookieFits(c)
  BY DEF OnePage, PageFits, Receive, CallFits
<1>2. /\ \A e \in Call \ {c} : calls'[e] = calls[e]
      /\ calls'[c].pc = "received" /\ calls'[c].answer = calls[c].answer
      /\ calls'[c].setCookie = None /\ calls'[c].cookie = calls[c].cookie
      /\ calls'[c].heard = calls[c].heard /\ calls'[c].user = calls[c].user
  BY CallType DEF OnePage, Typed, Receive, TypeOK, CallState
<1>3. jar' = CASE calls[c].setCookie = None -> jar
               [] calls[c].setCookie = Clear -> None
               [] OTHER -> calls[c].setCookie
  BY <1>1 DEF Receive
<1>4. CookieFits(c)'
  BY <1>2, NoneAssumption DEF CookieFits
<1>5. \A d \in Kinds("signOut") : (c[2] = "signIn" => calls'[d].pc = "idle")
  <2> SUFFICES ASSUME NEW d \in Kinds("signOut"), c[2] = "signIn" PROVE calls'[d].pc = "idle"
    OBVIOUS
  <2>1. d # c /\ d \in Call /\ calls[d].pc = "idle"
    BY <1>1 DEF Kinds, CallFits, SignInFits
  <2>2. QED BY <1>2, <2>1
<1>6. CASE jar' \in {jar, None}
  <2>1. c[2] = "restore" => RestoreFits(c)'
    <3> SUFFICES ASSUME c[2] = "restore" PROVE RestoreFits(c)'
      OBVIOUS
    <3>1. RestoreFits(c) /\ calls'[c].pc \notin {"sent", "stamped"}
      BY <1>1, <1>2 DEF CallFits
    <3>2. calls[c].answer = "ok" => Owns(calls[c].user, calls[c].cookie)'
      BY <1>1, <1>2, <3>1 DEF RestoreFits, Owns
    <3>3. QED BY <1>1, <1>2, <1>6, <3>1, <3>2 DEF RestoreFits
  <2>2. ASSUME c[2] = "signIn" PROVE SignInFits(c)'
    <3>1. SignInFits(c)
      BY <1>1, <2>2 DEF CallFits
    <3>2. calls[c].answer = "ok" => calls[c].setCookie \in Token /\ Owns(calls[c].user, calls[c].setCookie)
      BY <1>1, <3>1 DEF SignInFits
    <3>3. calls[c].setCookie \in Token => jar' = calls[c].setCookie
      BY <1>3, CookieRows DEF OnePage
    <3>4. calls'[c].answer = "ok" => Owns(calls[c].user, jar)'
      BY <1>1, <1>2, <3>2, <3>3 DEF Owns
    <3>5. QED BY <1>1, <1>2, <1>5, <2>2, <3>1, <3>4 DEF SignInFits
  <2>3. CallFits(c)'
    BY <1>1, <1>2, <1>4, <2>1, <2>2 DEF CallFits
  <2>4. \A d \in Call \ {c} : CallFits(d)'
    BY <1>1, <1>2, <1>6, OthersFit DEF OnePage, PageFits
  <2>5. \A tab \in Tab : tabs'[tab].user # None => Owns(tabs[tab].user, jar)'
    BY <1>1, <1>6, PageStays DEF OnePage, PageFits
  <2>6. QED BY <2>3, <2>4, <2>5 DEF PageFits
<1>7. CASE calls[c].setCookie \in Token /\ jar' = calls[c].setCookie
  <2>1. c[2] = "signIn" /\ calls[c].answer = "ok"
    BY <1>1, <1>7 DEF CookieFits
  <2>2. SignInFits(c) /\ Owns(calls[c].user, jar)'
    BY <1>1, <1>2, <1>7, <2>1 DEF CallFits, SignInFits, Owns
  <2>3. SignInFits(c)'
    BY <1>1, <1>2, <1>5, <2>1, <2>2 DEF SignInFits
  <2>4. CallFits(c)'
    BY <1>1, <1>2, <1>4, <2>1, <2>3 DEF CallFits
  <2>5. ASSUME NEW d \in Call \ {c} PROVE CallFits(d)'
    <3>1. CallFits(d) /\ calls'[d] = calls[d]
      BY <1>2 DEF OnePage, PageFits
    <3>2. d[2] = "signIn" => d = c
      <4> SUFFICES ASSUME d[2] = "signIn" PROVE d = c
        OBVIOUS
      <4>1. PICK t1 \in Tab, k1 \in Kind, t2 \in Tab, k2 \in Kind : c = <<t1, k1>> /\ d = <<t2, k2>>
        BY DEF Call
      <4>2. QED BY <2>1, <4>1
    <3>3. d[2] = "restore" => calls[d].pc = "idle"
      BY <1>1, <3>1 DEF CallFits, RestoreFits
    <3>4. d[2] # "signIn"
      BY <3>2
    <3>5. CookieFits(d) => CookieFits(d)'
      BY <3>1 DEF CookieFits
    <3>6. QED BY <1>1, <3>1, <3>3, <3>4, <3>5 DEF CallFits
  <2>6. \A tab \in Tab : tabs'[tab].user = None
    <3>1. tabs[c[1]].user = None /\ c[1] \in Tab
      BY <2>2 DEF SignInFits, Call
    <3>2. QED BY <1>1, <3>1
  <2>7. QED BY <2>4, <2>5, <2>6 DEF PageFits
<1>8. QED BY <1>3, <1>6, <1>7, CookieRows DEF OnePage

LEMMA SameKind ==
  ASSUME NEW one, Tab = {one}, NEW c \in Call, NEW d \in Call, c[2] = d[2]
  PROVE  c = d /\ c[1] = one
<1>1. PICK t1 \in Tab, k1 \in Kind, t2 \in Tab, k2 \in Kind : c = <<t1, k1>> /\ d = <<t2, k2>>
  BY DEF Call
<1>2. QED BY <1>1

(* The App acts on an answer that has arrived.                             *)
LEMMA SettleFits ==
  ASSUME NEW one, Tab = {one}, OnePage, RowsClose, NEW c \in Call, Settle(c)
  PROVE  PageFits'
<1>1. /\ jar' = jar /\ rows' = rows /\ calls[c].pc = "received" /\ CallFits(c)
      /\ calls[c].heard /\ c[1] = one /\ tabs[one] \in TabState
  BY SameKind DEF OnePage, PageFits, Settle, CallFits, Typed, TypeOK
<1>2. /\ \A e \in Call \ {c} : calls'[e] = calls[e]
      /\ calls'[c].pc = "idle"
  BY DEF OnePage, Typed, Settle, TypeOK, Idle, Ended
<1>3. tabs'[one] = CASE c[2] = "restore" -> Restored(tabs[one], calls[c])
                     [] c[2] = "signIn"  -> SignedIn(tabs[one], calls[c])
                     [] c[2] = "signOut" -> SignedOut(tabs[one], calls[c])
                     [] OTHER -> tabs[one]
  BY <1>1 DEF Settle, OnePage, Typed, TypeOK
<1>4. c[2] \in {"restore", "signIn", "signOut", "private"}
  BY KindAssumption DEF Call
<1>5. CallFits(c)'
  BY <1>2 DEF CallFits
<1>6. SUFFICES /\ \A d \in Call \ {c} : CallFits(d)'
               /\ tabs'[one].user # None => Owns(tabs[one].user, jar)'
  BY <1>5 DEF PageFits
<1>7. /\ \A d \in Call : CallFits(d)
      /\ tabs[one].user # None => Owns(tabs[one].user, jar)
  BY DEF OnePage, PageFits
<1>8. CASE c[2] = "restore"
  <2>1. RestoreFits(c)
    BY <1>1, <1>8 DEF CallFits
  <2>2. \A d \in Call \ {c} : CallFits(d)'
    BY <1>2, <2>1 DEF RestoreFits, CallFits
  <2>3. tabs'[one].user = IF calls[c].answer = "ok" THEN calls[c].user ELSE tabs[one].user
    BY <1>1, <1>3, <1>8 DEF Restored, TabState
  <2>4. tabs[one].user = None /\ (calls[c].answer = "ok" => Owns(calls[c].user, jar))
    BY <1>1, <2>1 DEF RestoreFits, Owns
  <2>5. QED BY <1>1, <2>2, <2>3, <2>4 DEF Owns
<1>9. CASE c[2] = "private"
  <2>1. tabs'[one] = tabs[one]
    BY <1>3, <1>9
  <2>2. tabs' = tabs
    BY <1>1, <1>9 DEF Settle, OnePage, Typed, TypeOK
  <2>3. \A d \in Call \ {c} : CallFits(d)'
    BY <1>1, <1>2, <1>7, <2>2, OthersFit DEF OnePage
  <2>4. QED BY <1>1, <1>7, <2>1, <2>3 DEF Owns
<1>10. CASE c[2] \in {"signIn", "signOut"}
  <2>1. ASSUME NEW d \in Call \ {c} PROVE CallFits(d)'
    <3>1. CallFits(d) /\ calls'[d] = calls[d] /\ calls[c].pc # "idle" /\ d[2] # c[2]
      BY <1>1, <1>2, <1>7, SameKind
    <3>2. d[2] = "restore" => calls[d].pc = "idle"
      BY <3>1 DEF CallFits, RestoreFits
    <3>3. d[2] = "signIn" => calls[d].pc = "idle"
      <4>1. d[2] = "signIn" => c \in Kinds("signOut")
        BY <1>10, <3>1 DEF Kinds
      <4>2. QED BY <3>1, <4>1 DEF CallFits, SignInFits
    <3>4. d[2] = "signOut" => calls[d].pc = "idle"
      <4> SUFFICES ASSUME d[2] = "signOut" PROVE calls[d].pc = "idle"
        OBVIOUS
      <4>1. c[2] = "signIn" /\ d \in Kinds("signOut")
        BY <1>10, <3>1 DEF Kinds
      <4>2. QED BY <1>1, <3>1, <4>1 DEF CallFits, SignInFits
    <3>5. CookieFits(d) => CookieFits(d)'
      BY <3>1 DEF CookieFits
    <3>6. QED BY <3>1, <3>2, <3>3, <3>4, <3>5 DEF CallFits
  <2>2. CASE calls[c].answer # "ok"
    <3>1. tabs'[one].user = tabs[one].user
      BY <1>1, <1>3, <1>10, <2>2 DEF SignedIn, SignedOut, TabState
    <3>2. QED BY <1>1, <1>7, <2>1, <3>1 DEF Owns
  <2>3. CASE calls[c].answer = "ok" /\ c[2] = "signOut"
    <3>1. tabs'[one].user = None
      BY <1>1, <1>3, <2>3 DEF SignedOut, TabState
    <3>2. QED BY <2>1, <3>1
  <2>4. CASE calls[c].answer = "ok" /\ c[2] = "signIn"
    <3>1. tabs'[one].user = calls[c].user
      BY <1>1, <1>3, <2>4 DEF SignedIn, TabState
    <3>2. Owns(calls[c].user, jar)
      BY <1>1, <2>4 DEF CallFits, SignInFits
    <3>3. QED BY <1>1, <2>1, <3>1, <3>2 DEF Owns
  <2>5. QED BY <1>10, <2>2, <2>3, <2>4
<1>11. QED BY <1>4, <1>8, <1>9, <1>10

(* The page is loaded and restores its session.                            *)
LEMMA LoadFits ==
  ASSUME NEW one, Tab = {one}, OnePage, Load(one), ~overlap'
  PROVE  PageFits'
<1> DEFINE c == <<one, "restore">>
<1>1. /\ ~Busy(one) /\ c \in Call /\ jar' = jar
      /\ tabs' = [tabs EXCEPT ![one] = [user |-> None, loading |-> TRUE, error |-> FALSE]]
  BY DEF Load, CanSend
<1>2. \A d \in Call : d[1] = one /\ calls[d].pc = "idle"
  <2>1. \A d \in Call : d[1] = one
    BY DEF Call
  <2>2. QED BY <1>1, <2>1 DEF Busy, InFlight
<1>3. \A d \in Call \ {c} : calls'[d].pc = "idle"
  BY <1>2 DEF Load
<1>4. calls'[c] = Sent(None)
  BY <1>1 DEF Load
<1>5. tabs'[one].user = None /\ tabs'[one].loading
  BY <1>1 DEF OnePage, Typed, TypeOK
<1>6. CallFits(c)'
  <2>1. /\ calls'[c].pc = "sent" /\ calls'[c].cookie = jar /\ calls'[c].answer = "failed"
        /\ calls'[c].setCookie = None /\ calls'[c].heard
    BY <1>4 DEF Sent
  <2>2. CookieFits(c)'
    BY <2>1, NoneAssumption DEF CookieFits
  <2>3. c[1] = one /\ c[2] = "restore"
    OBVIOUS
  <2> HIDE DEF c
  <2>4. RestoreFits(c)'
    BY <1>1, <1>3, <1>5, <2>1, <2>3 DEF RestoreFits
  <2>5. QED BY <2>1, <2>2, <2>3, <2>4 DEF CallFits
<1>7. \A d \in Call \ {c} : CallFits(d)'
  BY <1>3 DEF CallFits
<1>8. \A tab \in Tab : tabs'[tab].user = None
  BY <1>5
<1>9. QED BY <1>6, <1>7, <1>8 DEF PageFits

(* A new request, sent when the page allows it.                            *)
LEMMA SendFits ==
  ASSUME NEW one, Tab = {one}, OnePage, NEW kind \in {"signIn", "signOut", "private"},
         NEW u \in User \cup {None}, CanSend(<<one, kind>>),
         IF kind = "signIn" THEN tabs[one].user = None /\ ~tabs[one].loading
         ELSE tabs[one].user # None,
         calls' = [calls EXCEPT ![<<one, kind>>] = Sent(u)], UNCHANGED <<rows, jar, tabs>>
  PROVE  PageFits'
<1> DEFINE c == <<one, kind>>
<1>1. c \in Call /\ c[1] = one /\ c[2] = kind /\ calls[c].pc = "idle"
  BY DEF CanSend, InFlight
<1>2. calls'[c] = Sent(u) /\ \A d \in Call \ {c} : calls'[d] = calls[d]
  BY <1>1 DEF OnePage, Typed, TypeOK
<1>3. /\ calls'[c].pc = "sent" /\ calls'[c].answer = "failed"
      /\ calls'[c].setCookie = None /\ calls'[c].heard
  BY <1>2 DEF Sent
<1>4. /\ \A d \in Call : CallFits(d) /\ d[1] = one
      /\ \A tab \in Tab : tabs[tab].user # None => Owns(tabs[tab].user, jar)
  BY DEF OnePage, PageFits, Call
<1> HIDE DEF c
<1>5. \A d \in Call : d[2] = "restore" => calls[d].pc = "idle"
  BY <1>4 DEF CallFits, RestoreFits
<1>6. kind = "signIn" => \A d \in Kinds("signOut") : calls'[d].pc = "idle"
  <2> SUFFICES ASSUME kind = "signIn", NEW d \in Kinds("signOut") PROVE calls'[d].pc = "idle"
    OBVIOUS
  <2>1. d \in Call /\ d[2] = "signOut" /\ d # c /\ tabs[one].user = None
    BY <1>1 DEF Kinds
  <2>2. QED BY <1>2, <1>4, <2>1 DEF CallFits
<1>7. CallFits(c)'
  <2>1. CookieFits(c)'
    BY <1>3, NoneAssumption DEF CookieFits
  <2>2. kind = "signIn" => SignInFits(c)'
    BY <1>1, <1>3, <1>6 DEF SignInFits
  <2>3. QED BY <1>1, <1>3, <2>1, <2>2 DEF CallFits
<1>8. ASSUME NEW d \in Call \ {c} PROVE CallFits(d)'
  <2>1. CallFits(d) /\ calls'[d] = calls[d]
    BY <1>2, <1>4
  <2>2. CookieFits(d) => CookieFits(d)'
    BY <2>1 DEF CookieFits
  <2>3. ASSUME d[2] = "signIn", calls[d].pc # "idle" PROVE SignInFits(d)'
    <3>1. SignInFits(d) /\ tabs[one].user = None
      BY <1>4, <2>1, <2>3 DEF CallFits, SignInFits
    <3>2. kind = "signIn"
      BY <3>1
    <3>3. QED BY <1>1, <1>6, <2>1, <3>1, <3>2 DEF SignInFits, Owns
  <2>4. QED BY <1>5, <2>1, <2>2, <2>3 DEF CallFits
<1>9. QED BY <1>4, <1>7, <1>8 DEF PageFits, Owns

LEMMA PageFitsStep ==
  ASSUME NEW one, Tab = {one}, Typed, CookiesHaveRows, PageFits, [Next]_vars
  PROVE  PageFits'
<1> SUFFICES ASSUME ~overlap' PROVE PageFits'
  BY DEF PageFits
<1>1. OnePage /\ RowsClose
  <2>1. ~overlap
    BY DEF Next, vars, Send, Load, SendSignIn, SendSignOut, SendPrivate, Server, NoCookie, Stamp,
           FindActiveSession, Serve, CreateSession, Refuse, RevokeSession,
           Browser, Lose, Receive, Settle, CookieExpires, Tick
  <2>2. QED BY <2>1, RowsCloseStep DEF OnePage
<1>2. CASE Load(one)
  BY <1>1, <1>2, LoadFits
<1>3. ASSUME NEW u \in User, SendSignIn(one, u) PROVE PageFits'
  <2>1. ~tabs[one].loading
    BY <1>3 DEF SendSignIn
  <2>2. QED BY <1>1, <1>3, <2>1, SendFits DEF SendSignIn
<1>4. CASE SendSignOut(one)
  BY <1>1, <1>4, SendFits DEF SendSignOut
<1>5. CASE SendPrivate(one)
  BY <1>1, <1>5, SendFits DEF SendPrivate
<1>6. ASSUME NEW c \in Call, Server(c) \/ Browser(c) PROVE PageFits'
  BY <1>1, <1>6, ServerFits, LoseFits, ReceiveFits, SettleFits DEF Browser
<1>7. CASE CookieExpires \/ Tick \/ UNCHANGED vars
  <2>1. UNCHANGED <<rows, calls, tabs>> /\ jar' \in {jar, None}
    BY <1>7 DEF CookieExpires, Tick, vars
  <2>2. ASSUME NEW c \in Call PROVE CallFits(c)'
    <3>1. CallFits(c)
      BY <1>1 DEF OnePage, PageFits
    <3>2. CookieFits(c) => CookieFits(c)'
      BY <2>1 DEF CookieFits
    <3>3. RestoreFits(c) => RestoreFits(c)'
      BY <2>1 DEF RestoreFits, Owns
    <3>4. SignInFits(c) => SignInFits(c)'
      BY <2>1 DEF SignInFits, Owns, Kinds
    <3>5. QED BY <2>1, <3>1, <3>2, <3>3, <3>4 DEF CallFits
  <2>3. QED BY <1>1, <2>1, <2>2 DEF OnePage, PageFits, Owns
<1>8. QED BY <1>2, <1>3, <1>4, <1>5, <1>6, <1>7 DEF Next, Send

(* A page that has come to rest shows the user the cookie signs in, for    *)
(* any number of users, sessions and requests in flight, over lost         *)
(* answers, failed statements, expiry and page loads -- in a browser with  *)
(* one tab whose restoration ends before anything else is sent             *)
(* (frontend/src/App.tsx:252-300, backend/internal/auth/handler.go).       *)
THEOREM PageShowsItsUser ==
  ASSUME NEW one, Tab = {one}
  PROVE  Spec => []ShowsTheCookiesUser
<1>1. Init => PageFits
  BY DEF Init, PageFits, CallFits, Idle, Ended
<1>2. IInv /\ PageFits /\ [Next]_vars => PageFits'
  BY PageFitsStep DEF IInv
<1>3. PageFits => ShowsTheCookiesUser
  BY DEF PageFits, ShowsTheCookiesUser, Owns
<1>4. QED BY <1>1, <1>2, <1>3, Inductive, PTL DEF Spec
=============================================================================
