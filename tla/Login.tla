-------------------------------- MODULE Login --------------------------------
(***************************************************************************)
(* Applicant and application of one Emirates ID: AuthService.login, and    *)
(* POST /applications, which adds another application.  Nothing serialises *)
(* the requests; each has its own database session, at READ COMMITTED, and *)
(* the two inserts of a first login are two transactions.                  *)
(*                                                                         *)
(* `created_at` is the start of the transaction that inserts the row, so   *)
(* the order of creation is not the order of the commits.  No two          *)
(* transactions start at the same time here, and an application is named   *)
(* by its created_at.                                                      *)
(***************************************************************************)
EXTENDS Naturals

CONSTANTS
  Requests,     (* requests that may be in progress together                *)
  MaxCalls,     (* bound: requests received                                 *)
  MaxCrashes    (* bound: times the process dies                            *)

ASSUME BoundsAssumption == MaxCalls \in Nat /\ MaxCrashes \in Nat

VARIABLES
  applicant,     (* the applicants row of this Emirates ID exists           *)
  applications,  (* the created_at of the committed applications rows       *)
  clock,         (* transactions begun so far                               *)
  call,          (* the requests in progress                                *)
  newest,        (* the newest application any request was answered with    *)
  counts         (* of requests and crashes; and whether one was a POST    *)

vars == <<applicant, applications, clock, call, newest, counts>>

(* `begin` is the start of the request's transaction.  For the properties,  *)
(* `late` tells whether an application existed when the request came, and  *)
(* `floor` is `newest` at that time; `answer` is what it was last answered  *)
(* with.                                                                   *)
Call ==
  [pc : {"idle", "find_applicant", "find_application",
         "create_applicant", "begin", "create_application"},
   kind : {"login", "post"}, begin : Nat,
   late : BOOLEAN, floor : Nat, answer : Nat]

Idle(answer) ==
  [pc |-> "idle", kind |-> "login", begin |-> 0, late |-> FALSE, floor |-> 0,
   answer |-> answer]

Init ==
  /\ applicant = FALSE
  /\ applications = {}
  /\ clock = 0
  /\ call = [r \in Requests |-> Idle(0)]
  /\ newest = 0
  /\ counts = [calls |-> 0, crashes |-> 0, posted |-> FALSE]

-----------------------------------------------------------------------------
(* The session begins a transaction with its first statement. *)
Begin == clock' = clock + 1

Receive(r, kind, pc) ==
  /\ call[r].pc = "idle"
  /\ counts.calls < MaxCalls
  /\ Begin
  /\ call' = [call EXCEPT ![r] =
       [pc |-> pc, kind |-> kind, begin |-> clock',
        late |-> applications # {}, floor |-> newest, answer |-> 0]]
  /\ counts' = [counts EXCEPT !.calls = @ + 1, !.posted = @ \/ kind = "post"]
  /\ UNCHANGED <<applicant, applications, newest>>

Login(r) == Receive(r, "login", "find_applicant")

(* A client that knows the applicant, from a login that was answered, asks  *)
(* for another application.                                                *)
Post(r) == newest # 0 /\ Receive(r, "post", "create_application")

GoTo(r, pc) == call' = [call EXCEPT ![r].pc = pc]

Answer(r, a) ==
  /\ call' = [call EXCEPT ![r] = Idle(a)]
  /\ newest' = IF a > newest THEN a ELSE newest

FindApplicant_Assumed(r) ==
  /\ call[r].pc = "find_applicant"
  /\ GoTo(r, IF applicant THEN "find_application" ELSE "begin")
  /\ UNCHANGED <<applicant, applications, clock, newest, counts>>

FindApplicant(r) ==
  /\ call[r].pc = "find_applicant"
  /\ GoTo(r, IF applicant THEN "find_application" ELSE "create_applicant")
  /\ UNCHANGED <<applicant, applications, clock, newest, counts>>

(* Insert and commit.  identity_number is unique: a second insert waits for *)
(* the first to commit and fails, and the login with it.                   *)
CreateApplicant(r) ==
  /\ call[r].pc = "create_applicant"
  /\ IF applicant THEN call' = [call EXCEPT ![r] = Idle(0)] ELSE GoTo(r, "begin")
  /\ applicant' = TRUE
  /\ UNCHANGED <<applications, clock, newest, counts>>

BeginAgain(r) ==
  /\ call[r].pc = "begin"
  /\ Begin
  /\ call' = [call EXCEPT ![r].pc = "create_application", ![r].begin = clock']
  /\ UNCHANGED <<applicant, applications, newest, counts>>

FindApplication_Oldest(r) ==
  /\ call[r].pc = "find_application"
  /\ \/ applications = {} /\ GoTo(r, "create_application") /\ UNCHANGED newest
     \/ \E a \in applications :
          (\A b \in applications : a <= b) /\ Answer(r, a)
  /\ UNCHANGED <<applicant, applications, clock, counts>>

FindApplication_GivesUp(r) ==
  /\ call[r].pc = "find_application"
  /\ \/ applications = {} /\ call' = [call EXCEPT ![r] = Idle(0)] /\ UNCHANGED newest
     \/ \E a \in applications :
          (\A b \in applications : b <= a) /\ Answer(r, a)
  /\ UNCHANGED <<applicant, applications, clock, counts>>

(* get_latest_by_applicant: the newest, if there is one. *)
FindApplication(r) ==
  /\ call[r].pc = "find_application"
  /\ \/ applications = {} /\ GoTo(r, "create_application") /\ UNCHANGED newest
     \/ \E a \in applications :
          (\A b \in applications : b <= a) /\ Answer(r, a)
  /\ UNCHANGED <<applicant, applications, clock, counts>>

CreateApplication(r) ==
  /\ call[r].pc = "create_application"
  /\ applications' = applications \cup {call[r].begin}
  /\ Answer(r, call[r].begin)
  /\ UNCHANGED <<applicant, clock, counts>>

(* The process dies; what was not committed is lost. *)
Crash ==
  /\ counts.crashes < MaxCrashes
  /\ counts' = [counts EXCEPT !.crashes = @ + 1]
  /\ call' = [r \in Requests |-> Idle(0)]
  /\ UNCHANGED <<applicant, applications, clock, newest>>

Serve(r) ==
  \/ FindApplicant(r) \/ CreateApplicant(r) \/ BeginAgain(r)
  \/ FindApplication(r) \/ CreateApplication(r)

Next ==
  \/ \E r \in Requests : Login(r) \/ Post(r) \/ Serve(r)
  \/ Crash

Spec == Init /\ [][Next]_vars

-----------------------------------------------------------------------------
InFlight(r) == call[r].pc # "idle"

(* The type invariant; an application belongs to an applicant and has the   *)
(* created_at of a transaction that was begun.                             *)
TypeOK ==
  /\ applicant \in BOOLEAN
  /\ applications \in SUBSET Nat
  /\ \A a \in applications : 0 < a /\ a <= clock
  /\ clock \in Nat
  /\ call \in [Requests -> Call]
  /\ newest \in Nat
  /\ counts \in [calls : 0..MaxCalls, crashes : 0..MaxCrashes, posted : BOOLEAN]

(* A login that comes when the applicant has an application creates         *)
(* neither an applicant nor another application, whatever the logins still *)
(* in progress do: only first logins that overlap create more than one.    *)
LateLoginsCreateNone ==
  \A r \in Requests :
    call[r].kind = "login" /\ call[r].late =>
      call[r].pc \notin {"create_applicant", "begin", "create_application"}

(* A login that is answered, and did not come second in creating the        *)
(* applicant, leaves the applicant with an application: one that finds an  *)
(* applicant without, left by a crash between the two inserts, makes it.   *)
LoginsLeaveAnApplication ==
  [][\A r \in Requests :
       (InFlight(r) /\ ~InFlight(r)' /\ counts'.crashes = counts.crashes
          /\ call[r].pc # "create_applicant")
         => applications' # {}]_vars

(* No login takes its client back to an application older than one that a   *)
(* request was answered with before the login came: the transactions of    *)
(* requests that overlap commit in another order than they began, yet what *)
(* get_latest_by_applicant finds never gets older.                         *)
LoginsDoNotGoBack ==
  [][\A r \in Requests :
       (InFlight(r) /\ ~InFlight(r)' /\ call'[r].answer # 0)
         => call'[r].answer >= call[r].floor]_vars

-----------------------------------------------------------------------------
(* What the documentation says and the code does not do. *)

(* "Repeated logins with the same Emirates ID return the existing           *)
(* application (idempotent by identity lookup)." (docs/api-design.md:431)  *)
(* A login that comes after another was answered is answered the same, as  *)
(* long as only logins create.                                             *)
RepeatedLoginsAgree ==
  [][\A r \in Requests :
       (InFlight(r) /\ ~InFlight(r)' /\ call'[r].answer # 0
          /\ call[r].floor # 0 /\ ~counts.posted)
         => call'[r].answer = call[r].floor]_vars
=============================================================================
