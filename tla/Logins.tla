------------------------------- MODULE Logins -------------------------------
(***************************************************************************)
(* POST /auth/login and what it keeps: the failure counters of the         *)
(* throttle, in one process and in a sync.Map whose operations are atomic  *)
(* one by one only, and the sessions.  Several logins from one address are *)
(* served at the same time; time is a counter of coarse ticks.             *)
(***************************************************************************)
EXTENDS Naturals, FiniteSets

CONSTANTS
  Emails,                    \* addresses with an account
  LoginCalls,
  LoginLimit, LoginWindow,   \* loginLimit; loginWindow, in ticks
  NoAccount,
  MaxClock, MaxFailures

ASSUME LoginsAssumption == MaxClock \in Nat /\ MaxFailures \in Nat

VARIABLES
  clock,
  throttle,    \* key -> the failure entry, or NoEntry
  failures,    \* history: every failure recorded, with key and time
  approved,    \* accounts that are active
  sessions,    \* whose sessions are on record and not expired
  loginCalls

loginVars == <<clock, throttle, failures, approved, sessions, loginCalls>>

IP == "ip"
Keys == {IP} \cup Emails
NoEntry == [first |-> 0, count |-> 0, none |-> TRUE]
Entry(t, n) == [first |-> t, count |-> n, none |-> FALSE]
EntryType == [first : 0 .. MaxClock, count : 0 .. MaxFailures + 1, none : BOOLEAN]

NoLogin == [pc |-> "idle", email |-> NoAccount, held |-> NoEntry]

LoginPcs == {"idle", "admitted", "load email", "store email", "load ip", "store ip",
             "session", "clear email", "clear ip"}

LoginsTypeOK ==
  /\ clock \in 0 .. MaxClock
  /\ throttle \in [Keys -> EntryType]
  /\ failures \subseteq [key : Keys, at : 0 .. MaxClock, n : 0 .. MaxFailures]
  /\ approved \subseteq Emails
  /\ sessions \subseteq Emails
  /\ loginCalls \in [LoginCalls -> [pc : LoginPcs, email : Emails \cup {NoAccount},
                                    held : EntryType]]

LoginsInit ==
  /\ clock = 0
  /\ throttle = [k \in Keys |-> NoEntry]
  /\ failures = {}
  /\ approved = {}
  /\ sessions = {}
  /\ loginCalls = [c \in LoginCalls |-> NoLogin]

(* The entry's window is open and its count has reached the limit.         *)
throttled(k) ==
  /\ ~throttle[k].none
  /\ clock - throttle[k].first < LoginWindow
  /\ throttle[k].count >= LoginLimit

At(c, pc) == loginCalls' = [loginCalls EXCEPT ![c].pc = pc]
Answer(c) == loginCalls' = [loginCalls EXCEPT ![c] = NoLogin]

(* The gate before the body is decoded.                                    *)
LoginGate == throttled(IP)

login(c) ==
  /\ loginCalls[c].pc = "idle"
  /\ ~LoginGate
  /\ \E e \in Emails :
       loginCalls' = [loginCalls EXCEPT ![c] = [NoLogin EXCEPT !.pc = "admitted", !.email = e]]
  /\ UNCHANGED <<clock, throttle, failures, approved, sessions>>

(* Credentials are right or wrong; a right one of an account nobody has    *)
(* approved is refused without counting as a failure.                      *)
Login(c) ==
  LET e == loginCalls[c].email IN
  /\ loginCalls[c].pc = "admitted"
  /\ \/ throttled(IP) /\ Answer(c)
     \/ ~throttled(IP) /\ At(c, "load email")
     \/ ~throttled(IP) /\ e \notin approved /\ Answer(c)
     \/ ~throttled(IP) /\ e \in approved /\ At(c, "session")
  /\ UNCHANGED <<clock, throttle, failures, approved, sessions>>

CreateSession(e) == sessions' = sessions \cup {e}
DeleteSession(e) == sessions' = sessions \ {e}

(* A session, then the two counters are dropped.                           *)
LoginSucceeds(c) ==
  LET e == loginCalls[c].email IN
  /\ \/ /\ loginCalls[c].pc = "session"
        /\ CreateSession(e)
        /\ At(c, "clear email")
        /\ UNCHANGED throttle
     \/ /\ loginCalls[c].pc = "clear email"
        /\ throttle' = [throttle EXCEPT ![e] = NoEntry]
        /\ At(c, "clear ip")
        /\ UNCHANGED sessions
     \/ /\ loginCalls[c].pc = "clear ip"
        /\ throttle' = [throttle EXCEPT ![IP] = NoEntry]
        /\ Answer(c)
        /\ UNCHANGED sessions
  /\ UNCHANGED <<clock, failures, approved>>

(* recordFailure, first half: LoadOrStore.                                 *)
Load(c, k, next) ==
  LET e == IF throttle[k].none THEN Entry(clock, 0) ELSE throttle[k] IN
  /\ throttle' = [throttle EXCEPT ![k] = e]
  /\ loginCalls' = [loginCalls EXCEPT ![c].pc = next, ![c].held = e]
  /\ UNCHANGED failures

CountedWithoutReset(held) ==
  IF clock - held.first >= LoginWindow THEN Entry(clock, held.count + 1)
  ELSE Entry(held.first, held.count + 1)

(* What the second half stores, from the entry the first half held: it     *)
(* starts over when the window has passed.                                 *)
Counted(held) ==
  IF clock - held.first >= LoginWindow THEN Entry(clock, 1) ELSE Entry(held.first, held.count + 1)

Store(c, k) ==
  /\ throttle' = [throttle EXCEPT ![k] = Counted(loginCalls[c].held)]
  /\ failures' = failures \cup {[key |-> k, at |-> clock, n |-> Cardinality(failures)]}

recordFailure(c, k, load, store, next) ==
  /\ \/ loginCalls[c].pc = load /\ Load(c, k, store)
     \/ /\ loginCalls[c].pc = store
        /\ Store(c, k)
        /\ IF next = "idle" THEN Answer(c)
           ELSE loginCalls' = [loginCalls EXCEPT ![c].pc = next, ![c].held = NoEntry]

(* Both keys are counted, the address alone is ever asked for.             *)
failLogin(c) ==
  /\ \/ recordFailure(c, loginCalls[c].email, "load email", "store email", "load ip")
     \/ recordFailure(c, IP, "load ip", "store ip", "idle")
  /\ Cardinality(failures) < MaxFailures
  /\ UNCHANGED <<clock, approved, sessions>>

(* A session is deleted, or expires.                                       *)
logout ==
  /\ \E e \in sessions : DeleteSession(e)
  /\ UNCHANGED <<clock, throttle, failures, approved, loginCalls>>

(* An approval or the seeding of the superadmin; accounts stay active.     *)
Approve ==
  /\ \E e \in Emails \ approved : approved' = approved \cup {e}
  /\ UNCHANGED <<clock, throttle, failures, sessions, loginCalls>>

Tick ==
  /\ clock < MaxClock
  /\ clock' = clock + 1
  /\ UNCHANGED <<throttle, failures, approved, sessions, loginCalls>>

(* The process restarts: the counters are in memory, sessions are not.     *)
AuthRestarts ==
  /\ throttle' = [k \in Keys |-> NoEntry]
  /\ loginCalls' = [c \in LoginCalls |-> NoLogin]
  /\ UNCHANGED <<clock, failures, approved, sessions>>

LoginsNext ==
  \/ Tick \/ Approve \/ logout \/ AuthRestarts
  \/ \E c \in LoginCalls : login(c) \/ Login(c) \/ LoginSucceeds(c) \/ failLogin(c)

LoginsSpec == LoginsInit /\ [][LoginsNext]_loginVars

-----------------------------------------------------------------------------
FailuresSince(k, t) == {f \in failures : f.key = k /\ f.at >= t}

(* An entry never counts a failure that did not happen since its window    *)
(* opened, neither in the map nor in the hands of a request about to store *)
(* it, although requests store what they loaded before others stored or    *)
(* cleared (auth.go:136-147).                                              *)
CountsAreFailures ==
  /\ \A k \in Keys : throttle[k].count <= Cardinality(FailuresSince(k, throttle[k].first))
  /\ \A c \in LoginCalls :
       LET call == loginCalls[c] IN
       /\ call.pc = "store email" =>
            call.held.count <= Cardinality(FailuresSince(call.email, call.held.first))
       /\ call.pc = "store ip" =>
            call.held.count <= Cardinality(FailuresSince(IP, call.held.first))

=============================================================================
