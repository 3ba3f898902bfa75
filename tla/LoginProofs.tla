----------------------------- MODULE LoginProofs -----------------------------
(***************************************************************************)
(* Theorems about Login, for any number of requests and any bounds.        *)
(***************************************************************************)
EXTENDS Login, TLAPS

USE BoundsAssumption

(* What ties the requests to the rows.  A login past the applicant's lookup *)
(* or insert finds the applicant there for good; only a login that saw no  *)
(* application creates one, so nothing had been answered when it came; and *)
(* the application a request is about to insert is newer than any answer   *)
(* it has to keep up with.                                                 *)
Progresses(c) ==
  /\ c.begin <= clock
  /\ c.pc \in {"find_application", "begin", "create_application"} => applicant
  /\ c.pc \notin {"idle", "begin"} => 0 < c.begin
  /\ c.late => applications # {}
  /\ c.kind = "login" /\ c.late =>
       c.pc \notin {"create_applicant", "begin", "create_application"}
  /\ c.floor <= newest
  /\ ~c.late => c.floor = 0
  /\ c.kind = "post" /\ c.pc # "idle" => c.pc = "create_application" /\ c.floor < c.begin

IInv ==
  /\ TypeOK
  /\ applications # {} => applicant
  /\ newest = 0 \/ newest \in applications
  /\ \A r \in Requests : Progresses(call[r])

LEMMA IdleIsCall ==
  ASSUME NEW a \in Nat
  PROVE  /\ Idle(a) \in Call
         /\ Idle(a).pc = "idle" /\ Idle(a).kind = "login" /\ Idle(a).begin = 0
         /\ Idle(a).late = FALSE /\ Idle(a).floor = 0 /\ Idle(a).answer = a
BY DEF Idle, Call

(* Such a request is no burden to the invariant. *)
LEMMA IdleProgresses ==
  ASSUME NEW r \in Requests, NEW a \in Nat, clock' \in Nat, newest' \in Nat,
         call'[r] = Idle(a)
  PROVE  Progresses(call[r])'
<1>1. /\ Idle(a).pc = "idle" /\ Idle(a).kind = "login" /\ Idle(a).begin = 0
      /\ Idle(a).late = FALSE /\ Idle(a).floor = 0
  BY IdleIsCall
<1> QED BY <1>1 DEF Progresses

LEMMA InitIInv == Init => IInv
<1> SUFFICES ASSUME Init PROVE IInv
  OBVIOUS
<1>1. \A r \in Requests : call[r] = Idle(0) /\ call \in [Requests -> Call]
  BY IdleIsCall DEF Init
<1>2. ASSUME NEW r \in Requests PROVE Progresses(call[r])
  <2>1. call[r] = Idle(0) /\ clock = 0 /\ newest = 0
    BY <1>1 DEF Init
  <2>2. /\ Idle(0).pc = "idle" /\ Idle(0).kind = "login" /\ Idle(0).begin = 0
        /\ Idle(0).late = FALSE /\ Idle(0).floor = 0
    BY IdleIsCall
  <2> QED BY <2>1, <2>2 DEF Progresses
<1>3. call \in [Requests -> Call]
  BY IdleIsCall DEF Init
<1>4. counts \in [calls : 0..MaxCalls, crashes : 0..MaxCrashes, posted : BOOLEAN]
  BY DEF Init
<1>5. TypeOK
  BY <1>3, <1>4 DEF Init, TypeOK
<1> QED BY <1>2, <1>5 DEF Init, IInv

(* What a step does to the requests it is not about, as long as the rows    *)
(* and the clock only grow.                                                *)
Grows ==
  /\ applicant => applicant'
  /\ applications \subseteq applications'
  /\ clock' \in Nat /\ clock <= clock'
  /\ newest' \in Nat /\ newest <= newest'

LEMMA OthersProgress ==
  ASSUME IInv, Grows, NEW q \in Requests, call'[q] = call[q]
  PROVE  Progresses(call[q])'
<1>1. call[q] \in Call /\ Progresses(call[q])
  BY DEF IInv, TypeOK
<1>2. clock \in Nat /\ newest \in Nat
  BY DEF IInv, TypeOK
<1> QED BY <1>1, <1>2 DEF Progresses, Call, Grows

(* A step about one request needs to be checked for that request only. *)
LEMMA OneRequest ==
  ASSUME IInv, Grows, NEW r \in Requests, NEW c \in Call,
         call' = [call EXCEPT ![r] = c], Progresses(call[r])'
  PROVE  call' \in [Requests -> Call] /\ \A q \in Requests : Progresses(call[q])'
<1>1. call' \in [Requests -> Call] /\ \A q \in Requests \ {r} : call'[q] = call[q]
  BY DEF IInv, TypeOK
<1>2. \A q \in Requests \ {r} : Progresses(call[q])'
  BY <1>1, OthersProgress
<1> QED BY <1>1, <1>2

LEMMA RequestEnds ==
  ASSUME IInv, Grows, NEW r \in Requests, NEW a \in Nat,
         call' = [call EXCEPT ![r] = Idle(a)]
  PROVE  call' \in [Requests -> Call] /\ \A q \in Requests : Progresses(call[q])'
<1>1. call'[r] = Idle(a)
  BY DEF IInv, TypeOK
<1>2. Progresses(call[r])'
  BY <1>1, IdleProgresses DEF Grows
<1> QED BY <1>2, IdleIsCall, OneRequest

-----------------------------------------------------------------------------
(* Answering a request with a committed application. *)
LEMMA AnswerIInv ==
  ASSUME IInv, NEW r \in Requests, NEW a \in applications',
         Answer(r, a), applications \subseteq applications',
         applications' \in SUBSET Nat,
         \A b \in applications' : 0 < b /\ b <= clock,
         applicant, UNCHANGED <<applicant, clock, counts>>
  PROVE  IInv'
<1> USE DEF IInv, TypeOK
<1>1. newest' = (IF a > newest THEN a ELSE newest) /\ call' = [call EXCEPT ![r] = Idle(a)]
  BY DEF Answer
<1>2. Grows
  BY <1>1 DEF Grows
<1>3. newest' = 0 \/ newest' \in applications'
  BY <1>1
<1>4. a \in Nat
  OBVIOUS
<1>5. call' \in [Requests -> Call] /\ \A q \in Requests : Progresses(call[q])'
  BY <1>1, <1>2, <1>4, RequestEnds
<1>6. newest' \in Nat
  BY <1>2 DEF Grows
<1> QED BY <1>3, <1>5, <1>6

LEMMA StepIInv == IInv /\ [Next]_vars => IInv'
<1> SUFFICES ASSUME IInv, [Next]_vars PROVE IInv'
  OBVIOUS
<1> USE DEF IInv, TypeOK
<1>0. \A r \in Requests : call[r] \in Call /\ Progresses(call[r])
  OBVIOUS
<1>1. ASSUME NEW r \in Requests, Login(r) PROVE IInv'
  <2> DEFINE c == [pc |-> "find_applicant", kind |-> "login", begin |-> clock',
                   late |-> applications # {}, floor |-> newest, answer |-> 0]
  <2>1. /\ call' = [call EXCEPT ![r] = c]
        /\ clock' = clock + 1
        /\ UNCHANGED <<applicant, applications, newest>>
    BY <1>1 DEF Login, Receive, Begin
  <2>2. counts' \in [calls : 0..MaxCalls, crashes : 0..MaxCrashes, posted : BOOLEAN]
    <3>1. /\ counts.calls + 1 \in 0..MaxCalls
          /\ counts' = [counts EXCEPT !.calls = @ + 1, !.posted = @ \/ "login" = "post"]
      BY <1>1 DEF Login, Receive
    <3>2. (counts.posted \/ "login" = "post") \in BOOLEAN
      OBVIOUS
    <3> QED BY <3>1, <3>2
  <2>3. c \in Call
    BY <2>1 DEF Call
  <2>4. call'[r] = c
    BY <2>1
  <2>5. Progresses(call[r])'
    <3>1. c.late => applications # {}
      BY <2>1
    <3>2. ~c.late => newest = 0
      BY <2>1
    <3>3. c.begin = clock + 1 /\ c.floor = newest
      BY <2>1
    <3>4. newest <= clock
      OBVIOUS
    <3> QED BY <2>1, <2>4, <3>1, <3>2, <3>3, <3>4 DEF Progresses
  <2>6. Grows
    BY <2>1 DEF Grows
  <2> HIDE DEF c
  <2>7. call' \in [Requests -> Call] /\ \A q \in Requests : Progresses(call[q])'
    BY <2>1, <2>3, <2>5, <2>6, OneRequest
  <2> QED BY <2>1, <2>2, <2>7
<1>2. ASSUME NEW r \in Requests, Post(r) PROVE IInv'
  <2> DEFINE c == [pc |-> "create_application", kind |-> "post", begin |-> clock',
                   late |-> applications # {}, floor |-> newest, answer |-> 0]
  <2>1. /\ call' = [call EXCEPT ![r] = c]
        /\ clock' = clock + 1
        /\ applicant
        /\ UNCHANGED <<applicant, applications, newest>>
    BY <1>2 DEF Post, Receive, Begin
  <2>2. counts' \in [calls : 0..MaxCalls, crashes : 0..MaxCrashes, posted : BOOLEAN]
    <3>1. /\ counts.calls + 1 \in 0..MaxCalls
          /\ counts' = [counts EXCEPT !.calls = @ + 1, !.posted = @ \/ "post" = "post"]
      BY <1>2 DEF Post, Receive
    <3>2. (counts.posted \/ "post" = "post") \in BOOLEAN
      OBVIOUS
    <3> QED BY <3>1, <3>2
  <2>3. c \in Call
    BY <2>1 DEF Call
  <2>4. call'[r] = c
    BY <2>1
  <2>5. Progresses(call[r])'
    <3>1. c.late => applications # {}
      BY <2>1
    <3>2. ~c.late => newest = 0
      BY <2>1
    <3>3. c.begin = clock + 1 /\ c.floor = newest
      BY <2>1
    <3>4. newest <= clock
      OBVIOUS
    <3> QED BY <2>1, <2>4, <3>1, <3>2, <3>3, <3>4 DEF Progresses
  <2>6. Grows
    BY <2>1 DEF Grows
  <2> HIDE DEF c
  <2>7. call' \in [Requests -> Call] /\ \A q \in Requests : Progresses(call[q])'
    BY <2>1, <2>3, <2>5, <2>6, OneRequest
  <2> QED BY <2>1, <2>2, <2>7
<1>3. ASSUME NEW r \in Requests, FindApplicant(r) PROVE IInv'
  <2> DEFINE c == [call[r] EXCEPT !.pc =
                     IF applicant THEN "find_application" ELSE "create_applicant"]
  <2>1. call' = [call EXCEPT ![r] = c] /\ UNCHANGED <<applicant, applications, clock, newest, counts>>
    BY <1>3 DEF FindApplicant, GoTo
  <2>2. c \in Call /\ Grows /\ call'[r] = c
    BY <1>0, <2>1 DEF Call, Grows
  <2>3. Progresses(call[r])'
    BY <1>0, <1>3, <2>1, <2>2 DEF Progresses, Call, FindApplicant
  <2> HIDE DEF c
  <2>4. call' \in [Requests -> Call] /\ \A q \in Requests : Progresses(call[q])'
    BY <2>1, <2>2, <2>3, OneRequest
  <2> QED BY <2>1, <2>4
<1>4. ASSUME NEW r \in Requests, CreateApplicant(r) PROVE IInv'
  <2>1. applicant' = TRUE /\ UNCHANGED <<applications, clock, newest, counts>> /\ Grows
    BY <1>4 DEF CreateApplicant, Grows
  <2>2. call' \in [Requests -> Call] /\ \A q \in Requests : Progresses(call[q])'
    <3>1. CASE applicant
      BY <1>4, <2>1, <3>1, RequestEnds DEF CreateApplicant
    <3>2. CASE ~applicant
      <4> DEFINE c == [call[r] EXCEPT !.pc = "begin"]
      <4>1. call' = [call EXCEPT ![r] = c] /\ call[r].pc = "create_applicant"
        BY <1>4, <3>2 DEF CreateApplicant, GoTo
      <4>2. c \in Call /\ call'[r] = c
        BY <1>0, <4>1 DEF Call
      <4>3. Progresses(call[r])'
        BY <1>0, <2>1, <4>1, <4>2 DEF Progresses, Call
      <4> HIDE DEF c
      <4> QED BY <2>1, <4>1, <4>2, <4>3, OneRequest
    <3> QED BY <3>1, <3>2
  <2> QED BY <2>1, <2>2
<1>5. ASSUME NEW r \in Requests, BeginAgain(r) PROVE IInv'
  <2> DEFINE c == [call[r] EXCEPT !.pc = "create_application", !.begin = clock']
  <2>1. /\ call' = [call EXCEPT ![r] = c]
        /\ clock' = clock + 1
        /\ call[r].pc = "begin"
        /\ UNCHANGED <<applicant, applications, newest, counts>>
    BY <1>5 DEF BeginAgain, Begin
  <2>2. Grows /\ clock' \in Nat
    BY <2>1 DEF Grows
  <2>3. c \in Call /\ call'[r] = c
    BY <1>0, <2>1, <2>2 DEF Call
  <2>5. Progresses(call[r])'
    BY <1>0, <2>1, <2>3 DEF Progresses, Call
  <2> HIDE DEF c
  <2>4. call' \in [Requests -> Call] /\ \A q \in Requests : Progresses(call[q])'
    BY <2>1, <2>2, <2>3, <2>5, OneRequest
  <2> QED BY <2>1, <2>4
<1>6. ASSUME NEW r \in Requests, FindApplication(r) PROVE IInv'
  <2>1. call[r].pc = "find_application" /\ applicant /\ UNCHANGED <<applicant, applications, clock, counts>>
    BY <1>0, <1>6 DEF FindApplication, Progresses
  <2>2. CASE applications = {} /\ GoTo(r, "create_application") /\ UNCHANGED newest
    <3> DEFINE c == [call[r] EXCEPT !.pc = "create_application"]
    <3>1. call' = [call EXCEPT ![r] = c]
      BY <2>2 DEF GoTo
    <3>2. c \in Call /\ Grows /\ call'[r] = c
      BY <1>0, <2>1, <2>2, <3>1 DEF Call, Grows
    <3>3. Progresses(call[r])'
      BY <1>0, <2>1, <2>2, <3>2 DEF Progresses, Call
    <3> HIDE DEF c
    <3>4. call' \in [Requests -> Call] /\ \A q \in Requests : Progresses(call[q])'
      BY <3>1, <3>2, <3>3, OneRequest
    <3> QED BY <2>1, <2>2, <3>4
  <2>3. ASSUME NEW a \in applications, Answer(r, a) PROVE IInv'
    BY <2>1, <2>3, AnswerIInv
  <2> QED BY <1>6, <2>2, <2>3 DEF FindApplication
<1>7. ASSUME NEW r \in Requests, CreateApplication(r) PROVE IInv'
  <2>1. /\ applicant /\ 0 < call[r].begin /\ call[r].begin <= clock
        /\ call[r].begin \in Nat
    BY <1>0, <1>7 DEF CreateApplication, Progresses, Call
  <2>2. /\ applications' = applications \cup {call[r].begin}
        /\ Answer(r, call[r].begin)
        /\ UNCHANGED <<applicant, clock, counts>>
    BY <1>7 DEF CreateApplication
  <2> QED BY <2>1, <2>2, AnswerIInv
<1>8. CASE Crash
  <2>1. /\ call' = [r \in Requests |-> Idle(0)]
        /\ UNCHANGED <<applicant, applications, clock, newest>>
    BY <1>8 DEF Crash
  <2>2. counts' \in [calls : 0..MaxCalls, crashes : 0..MaxCrashes, posted : BOOLEAN]
    BY <1>8 DEF Crash
  <2>3. call' \in [Requests -> Call] /\ \A r \in Requests : call'[r] = Idle(0)
    BY <2>1, IdleIsCall
  <2>4. \A r \in Requests : Progresses(call[r])'
    BY <2>1, <2>3, IdleProgresses
  <2> QED BY <2>1, <2>2, <2>3, <2>4
<1>9. CASE UNCHANGED vars
  BY <1>0, <1>9 DEF vars, Progresses
<1> QED
  BY <1>1, <1>2, <1>3, <1>4, <1>5, <1>6, <1>7, <1>8, <1>9 DEF Next, Serve

LEMMA Invariance == Spec => []IInv
BY InitIInv, StepIInv, PTL DEF Spec
-----------------------------------------------------------------------------
(* The rows, the clock and the requests keep their types, and every         *)
(* application carries the time at which its transaction began.            *)
THEOREM TypeCorrectness == Spec => []TypeOK
<1>1. IInv => TypeOK
  BY DEF IInv
<1> QED BY <1>1, Invariance, PTL

(* However many logins overlap and whenever the process dies, a login that  *)
(* comes once the applicant has an application inserts nothing.            *)
THEOREM OnlyFirstLoginsCreate == Spec => []LateLoginsCreateNone
<1>1. IInv => LateLoginsCreateNone
  BY DEF IInv, Progresses, LateLoginsCreateNone
<1> QED BY <1>1, Invariance, PTL

(* The values and rows a step may answer a request with. *)
LEMMA Answered ==
  ASSUME IInv, [Next]_vars, NEW r \in Requests, InFlight(r), ~InFlight(r)',
         counts'.crashes = counts.crashes
  PROVE  \/ call[r].pc = "create_applicant" /\ call'[r].answer = 0
         \/ FindApplication(r) /\ \E a \in applications :
              (\A b \in applications : b <= a) /\ Answer(r, a)
         \/ CreateApplication(r)
<1> USE DEF IInv, TypeOK, InFlight
<1>0. call \in [Requests -> Call]
  OBVIOUS
<1>1. ASSUME NEW q \in Requests, q # r, call'[r] # call[r],
             \/ Login(q) \/ Post(q) \/ Serve(q)
      PROVE  FALSE
  BY <1>0, <1>1 DEF Login, Post, Receive, Serve, FindApplicant, CreateApplicant,
     BeginAgain, FindApplication, CreateApplication, GoTo, Answer
<1>2. CASE Login(r) \/ Post(r)
  BY <1>2 DEF Login, Post, Receive
<1>3. CASE FindApplicant(r)
  BY <1>0, <1>3 DEF FindApplicant, GoTo, Call
<1>4. CASE CreateApplicant(r)
  <2>1. CASE applicant
    BY <1>0, <1>4, <2>1 DEF CreateApplicant, Idle
  <2>2. CASE ~applicant
    BY <1>0, <1>4, <2>2 DEF CreateApplicant, GoTo, Call
  <2> QED BY <2>1, <2>2
<1>5. CASE BeginAgain(r)
  BY <1>0, <1>5 DEF BeginAgain, Call
<1>6. CASE FindApplication(r)
  <2>1. CASE applications = {} /\ GoTo(r, "create_application")
    BY <1>0, <2>1 DEF GoTo, Call
  <2> QED BY <1>6, <2>1 DEF FindApplication
<1>7. CASE Crash
  BY <1>7 DEF Crash
<1>8. CASE UNCHANGED vars
  BY <1>8 DEF vars
<1> QED
  BY <1>1, <1>2, <1>3, <1>4, <1>5, <1>6, <1>7, <1>8 DEF Next, Serve

(* A login that was answered, unless another one beat it to the applicant,  *)
(* leaves the applicant with an application.                               *)
THEOREM AnsweredMeansApplication == Spec => LoginsLeaveAnApplication
<1>1. ASSUME IInv, [Next]_vars, NEW r \in Requests, InFlight(r), ~InFlight(r)',
             counts'.crashes = counts.crashes, call[r].pc # "create_applicant"
      PROVE  applications' # {}
  <2>1. CASE FindApplication(r) /\ applications # {}
    BY <2>1 DEF FindApplication
  <2>2. CASE CreateApplication(r)
    BY <2>2 DEF CreateApplication
  <2> QED BY <1>1, <2>1, <2>2, Answered
<1>2. IInv /\ [Next]_vars =>
        [\A r \in Requests :
           (InFlight(r) /\ ~InFlight(r)' /\ counts'.crashes = counts.crashes
              /\ call[r].pc # "create_applicant")
             => applications' # {}]_vars
  BY <1>1
<1> QED BY <1>2, Invariance, PTL DEF Spec, LoginsLeaveAnApplication

(* No request is answered with an application older than one any request    *)
(* was answered with before it came.                                       *)
THEOREM AnswersDoNotAge == Spec => LoginsDoNotGoBack
<1>1. ASSUME IInv, [Next]_vars, NEW r \in Requests, InFlight(r), ~InFlight(r)',
             call'[r].answer # 0
      PROVE  call'[r].answer >= call[r].floor
  <2> USE DEF IInv, TypeOK
  <2>0. call[r] \in Call /\ Progresses(call[r]) /\ call \in [Requests -> Call]
    BY <1>1
  <2>1. \A a \in Nat : Answer(r, a) => call'[r].answer = a
    BY <2>0, IdleIsCall DEF Answer
  <2>2. CASE Crash
    <3>1. call'[r] = Idle(0)
      BY <2>2 DEF Crash
    <3> QED BY <1>1, <3>1, IdleIsCall
  <2>3. ASSUME NEW a \in applications, \A b \in applications : b <= a, Answer(r, a)
        PROVE  call'[r].answer >= call[r].floor
    <3>1. newest <= a
      BY <1>1, <2>3
    <3>2. call[r].floor <= newest /\ call[r].floor \in Nat /\ a \in Nat
      BY <1>1, <2>0 DEF Progresses, Call
    <3> QED BY <1>1, <2>1, <2>3, <3>1, <3>2
  <2>4. CASE CreateApplication(r)
    <3>1. call'[r].answer = call[r].begin
      BY <2>0, <2>1, <2>4 DEF CreateApplication, Call
    <3>2. call[r].floor <= call[r].begin
      BY <2>0, <2>4 DEF CreateApplication, Progresses, Call
    <3>3. call[r].floor \in Nat /\ call[r].begin \in Nat
      BY <2>0 DEF Call
    <3> QED BY <3>1, <3>2, <3>3
  <2>5. CASE ~Crash
    <3>1. counts'.crashes = counts.crashes
      BY <1>1, <2>5 DEF Next, Serve, Login, Post, Receive, FindApplicant,
         CreateApplicant, BeginAgain, FindApplication, CreateApplication, vars
    <3> QED BY <1>1, <2>3, <2>4, <3>1, Answered
  <2> QED BY <2>2, <2>5
<1>2. IInv /\ [Next]_vars =>
        [\A r \in Requests :
           (InFlight(r) /\ ~InFlight(r)' /\ call'[r].answer # 0)
             => call'[r].answer >= call[r].floor]_vars
  BY <1>1
<1> QED BY <1>2, Invariance, PTL DEF Spec, LoginsDoNotGoBack
=============================================================================
