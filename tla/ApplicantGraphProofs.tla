------------------------ MODULE ApplicantGraphProofs ------------------------
(***************************************************************************)
(* Lemmas about the operators of ApplicantGraph, for the proofs about the  *)
(* modules that run the graph: what the reducers keep, and what each node  *)
(* may do to the state.                                                    *)
(***************************************************************************)
EXTENDS ApplicantGraph, TLAPS, FiniteSetTheorems, WellFoundedInduction

-----------------------------------------------------------------------------
(* The reducers only add. *)

LEMMA AddedEntries ==
  ASSUME NEW f \in [Paths -> 0..MaxFiles], NEW g \in [Paths -> Nat]
  PROVE  /\ AddEntries(f, g) \in [Paths -> 0..MaxFiles]
         /\ Listed(f) \subseteq Listed(AddEntries(f, g))
         /\ g \in [Paths -> 0..MaxFiles] => Listed(g) \subseteq Listed(AddEntries(f, g))
BY MaxFilesAssumption DEF AddEntries, UpTo, Listed

LEMMA AddedFiles ==
  ASSUME NEW s \in ApplicantState, NEW new \in SUBSET Paths
  PROVE  /\ AddFiles(s, new) \in ApplicantState
         /\ AddFiles(s, new) = [s EXCEPT !.files = AddFiles(s, new).files]
         /\ Listed(s.files) \cup new \subseteq Listed(AddFiles(s, new).files)
<1> DEFINE g == [p \in Paths |-> IF p \in new THEN 1 ELSE 0]
<1>1. g \in [Paths -> Nat]
  OBVIOUS
<1>2. s.files \in [Paths -> 0..MaxFiles]
  BY DEF ApplicantState
<1>3. /\ AddEntries(s.files, g) \in [Paths -> 0..MaxFiles]
      /\ Listed(s.files) \subseteq Listed(AddEntries(s.files, g))
  BY <1>1, <1>2, AddedEntries
<1>4. new \subseteq Listed(AddEntries(s.files, g))
  BY <1>2, MaxFilesAssumption DEF AddEntries, UpTo, Listed
<1>5. AddFiles(s, new) = [s EXCEPT !.files = AddEntries(s.files, g)]
  BY DEF AddFiles
<1> HIDE DEF g
<1> QED
  BY <1>3, <1>4, <1>5 DEF ApplicantState

(* A state with more documents of an applicant of the same category is as   *)
(* complete.                                                               *)
LEMMA CompleteIsMonotone ==
  ASSUME NEW s, NEW t, Listed(s.docs) \subseteq Listed(t.docs),
         t.category = s.category, Complete(s)
  PROVE  Complete(t)
BY DEF Complete, RequiredFor, TypesOf

LEMMA EarnedIsMonotone ==
  ASSUME NEW s, NEW t, NEW node, Listed(s.docs) \subseteq Listed(t.docs),
         t.category = s.category, t.discrepancies = s.discrepancies,
         t.decision = s.decision, Earned(node, s)
  PROVE  Earned(node, t)
BY CompleteIsMonotone DEF Earned, Unresolved

-----------------------------------------------------------------------------
(* What the nodes do to the state, one lemma for each question. *)

LEMMA UploadedDocumentsType ==
  ASSUME NEW s \in ApplicantState
  PROVE  /\ UploadedDocuments(s) \in [Paths -> 0..MaxFiles]
         /\ Listed(UploadedDocuments(s)) \subseteq Listed(AddEntries(s.docs, UploadedDocuments(s)))
         /\ Listed(s.docs) \subseteq Listed(AddEntries(s.docs, UploadedDocuments(s)))
         /\ AddEntries(s.docs, UploadedDocuments(s)) \in [Paths -> 0..MaxFiles]
<1>1. s.docs \in [Paths -> 0..MaxFiles] /\ s.files \in [Paths -> 0..MaxFiles]
  BY DEF ApplicantState
<1>2. UploadedDocuments(s) \in [Paths -> 0..MaxFiles]
  BY <1>1 DEF UploadedDocuments
<1>3. UploadedDocuments(s) \in [Paths -> Nat]
  BY <1>2, MaxFilesAssumption
<1> QED
  BY <1>1, <1>2, <1>3, AddedEntries

LEMMA CollectedType ==
  ASSUME NEW s \in ApplicantState, NEW phase \in Phases, NEW newDocs \in BOOLEAN
  PROVE  /\ Collected(s, phase, newDocs) \in ApplicantState
         /\ Collected(s, phase, newDocs).phase = phase
         /\ Collected(s, phase, newDocs).docs = AddEntries(s.docs, UploadedDocuments(s))
         /\ Collected(s, phase, newDocs).files = s.files
         /\ Collected(s, phase, newDocs).category = s.category
         /\ Collected(s, phase, newDocs).discrepancies = s.discrepancies
         /\ Collected(s, phase, newDocs).decision = s.decision
BY UploadedDocumentsType DEF Collected, ApplicantState

LEMMA OutcomesOfAuthentication ==
  ASSUME NEW s \in ApplicantState, NEW o \in AuthenticationNode(s)
  PROVE  /\ o.end = "return" /\ o.state \in ApplicantState /\ o.inserted = {}
         /\ o.state.phase \in {"authentication", "intake"} /\ o.state.files = s.files
         /\ o.state.discrepancies = s.discrepancies /\ o.state.decision = s.decision
<1>1. PICK id \in {"none", "bare", "emirates"} :
        o = Return(IF EmiratesIdValid(id)
                   THEN [s EXCEPT !.phase = "intake", !.identity = id]
                   ELSE [s EXCEPT !.phase = "authentication"])
  <2>1. s.identity \in {"none", "bare", "emirates"}
    BY DEF ApplicantState
  <2>2. CASE s.identity = "none"
    BY <2>2 DEF AuthenticationNode
  <2>3. CASE s.identity # "none"
    BY <2>1, <2>3 DEF AuthenticationNode
  <2> QED
    BY <2>2, <2>3
<1>2. CASE EmiratesIdValid(id)
  BY <1>1, <1>2 DEF Return, Outcome, ApplicantState, Phases
<1>3. CASE ~EmiratesIdValid(id)
  BY <1>1, <1>3 DEF Return, Outcome, ApplicantState, Phases
<1> QED
  BY <1>2, <1>3

LEMMA OutcomesOfIntake ==
  ASSUME NEW s \in ApplicantState, NEW answer \in Answers, NEW o \in IntakeNode(s, answer)
  PROVE  /\ o.state \in ApplicantState /\ o.inserted = {} /\ o.state.files = s.files
         /\ \/ o.end = "interrupt" /\ o.state = s /\ answer = "none"
            \/ o.end = "raise" /\ o.state = s
            \/ /\ o.end = "return"
               /\ o.state.phase \in {"intake", "document_collection"}
               /\ o.state.discrepancies = s.discrepancies /\ o.state.decision = s.decision
<1>1. CASE answer = "none" /\ o = Interrupt(s)
  BY <1>1 DEF Interrupt, Outcome
<1>2. ASSUME NEW c \in Categories,
             o = Return([s EXCEPT !.category = c, !.phase = "document_collection"])
      PROVE  o.end = "return" /\ o.state \in ApplicantState /\ o.inserted = {}
             /\ o.state.phase = "document_collection" /\ o.state.files = s.files
             /\ o.state.discrepancies = s.discrepancies /\ o.state.decision = s.decision
  BY <1>2 DEF Return, Outcome, ApplicantState, Phases
<1>3. ASSUME NEW c \in Categories \cup {"none"},
             o = Return([s EXCEPT !.category = c, !.phase = "intake"])
      PROVE  o.end = "return" /\ o.state \in ApplicantState /\ o.inserted = {}
             /\ o.state.phase = "intake" /\ o.state.files = s.files
             /\ o.state.discrepancies = s.discrepancies /\ o.state.decision = s.decision
  BY <1>3 DEF Return, Outcome, ApplicantState, Phases
<1>4. CASE o = Raise(s)
  BY <1>4 DEF Raise, Outcome
<1>5. \/ answer = "none" /\ o = Interrupt(s)
      \/ o = Raise(s)
      \/ \E c \in Categories :
           o = Return([s EXCEPT !.category = c, !.phase = "document_collection"])
      \/ \E c \in Categories \cup {"none"} :
           o = Return([s EXCEPT !.category = c, !.phase = "intake"])
  BY Zenon DEF IntakeNode
<1> QED
  BY <1>1, <1>2, <1>3, <1>4, <1>5

LEMMA OutcomesOfDocumentCollection ==
  ASSUME NEW s \in ApplicantState, NEW answer \in Answers,
         NEW o \in DocumentCollectionNode(s, answer)
  PROVE  /\ o.state \in ApplicantState /\ o.inserted \in SUBSET Paths
         /\ Listed(s.docs) \subseteq Listed(o.state.docs)
         /\ o.state.category = s.category /\ o.state.files = s.files
         /\ o.state.discrepancies = s.discrepancies /\ o.state.decision = s.decision
         /\ o.end = "interrupt" => answer = "none"
         /\ \/ o.end \in {"interrupt", "raise"} /\ o.state = s
            \/ o.end = "return" /\ o.state.phase = "document_collection"
            \/ o.end = "return" /\ o.state.phase = "processing" /\ Complete(o.state)
<1> DEFINE new == Unclassified(s)
           arrived == new # {}
<1>1. new \in SUBSET Paths
  BY DEF Unclassified, Listed
<1>2. arrived \in BOOLEAN
  OBVIOUS
<1>3. \/ MissingTypes(s) = {} /\ \E inserted \in SUBSET new :
           o = Outcome("return", Collected(s, "processing", arrived), inserted)
      \/ \E inserted \in SUBSET new : o = Outcome("raise", s, inserted)
      \/ answer = "none" /\ o = Interrupt(s)
      \/ o = Return(Collected(s, "document_collection", s.newDocs))
  BY Zenon DEF DocumentCollectionNode
<1> HIDE DEF new, arrived
<1>4. ASSUME MissingTypes(s) = {}, NEW inserted \in SUBSET new,
             o = Outcome("return", Collected(s, "processing", arrived), inserted)
      PROVE  /\ o.state \in ApplicantState /\ o.inserted \in SUBSET Paths
             /\ Listed(s.docs) \subseteq Listed(o.state.docs)
             /\ o.state.category = s.category /\ o.state.files = s.files
             /\ o.state.discrepancies = s.discrepancies /\ o.state.decision = s.decision
             /\ o.end = "return" /\ o.state.phase = "processing" /\ Complete(o.state)
  <2>1. o.state = Collected(s, "processing", arrived) /\ o.end = "return"
        /\ o.inserted = inserted
    BY <1>4 DEF Outcome
  <2>2. /\ o.state \in ApplicantState
        /\ o.state.phase = "processing"
        /\ o.state.docs = AddEntries(s.docs, UploadedDocuments(s))
        /\ o.state.category = s.category
        /\ o.state.files = s.files
        /\ o.state.discrepancies = s.discrepancies
        /\ o.state.decision = s.decision
    BY <1>2, <2>1, CollectedType, "processing" \in Phases DEF Phases
  <2>3. Listed(s.docs) \subseteq Listed(o.state.docs)
        /\ Listed(UploadedDocuments(s)) \subseteq Listed(o.state.docs)
    BY <2>2, UploadedDocumentsType
  <2>4. Complete(o.state)
    BY <1>4, <2>2, <2>3 DEF MissingTypes, Complete, RequiredFor, TypesOf
  <2> QED
    BY <1>1, <2>1, <2>2, <2>3, <2>4
<1>5. ASSUME NEW inserted \in SUBSET new, o = Outcome("raise", s, inserted)
      PROVE  o.state = s /\ o.end = "raise" /\ o.inserted \in SUBSET Paths
  BY <1>1, <1>5 DEF Outcome
<1>6. CASE answer = "none" /\ o = Interrupt(s)
  BY <1>6 DEF Interrupt, Outcome
<1>7. CASE o = Return(Collected(s, "document_collection", s.newDocs))
  <2>1. o.state = Collected(s, "document_collection", s.newDocs) /\ o.end = "return"
        /\ o.inserted = {}
    BY <1>7 DEF Return, Outcome
  <2>2. s.newDocs \in BOOLEAN /\ "document_collection" \in Phases
    BY DEF ApplicantState, Phases
  <2>3. /\ o.state \in ApplicantState
        /\ o.state.phase = "document_collection"
        /\ o.state.docs = AddEntries(s.docs, UploadedDocuments(s))
        /\ o.state.category = s.category
        /\ o.state.files = s.files
        /\ o.state.discrepancies = s.discrepancies
        /\ o.state.decision = s.decision
    BY <2>1, <2>2, CollectedType
  <2>4. Listed(s.docs) \subseteq Listed(o.state.docs)
    BY <2>3, UploadedDocumentsType
  <2> QED
    BY <2>1, <2>3, <2>4
<1>8. CASE \E inserted \in SUBSET new : o = Outcome("raise", s, inserted)
  BY <1>5, <1>8
<1>9. CASE MissingTypes(s) = {} /\ \E inserted \in SUBSET new :
              o = Outcome("return", Collected(s, "processing", arrived), inserted)
  BY <1>4, <1>9
<1> QED
  BY <1>3, <1>6, <1>7, <1>8, <1>9

(* After document collection only the review flags, the results, the        *)
(* discrepancies and the decision change.                                  *)
LEMMA OutcomesOfProcessing ==
  ASSUME NEW s \in ApplicantState, NEW o \in ProcessingNode(s)
  PROVE  /\ o.end = "return" /\ o.state \in ApplicantState /\ o.inserted = {}
         /\ o.state.phase = "review" /\ o.state.docs = s.docs /\ o.state.files = s.files
         /\ o.state.category = s.category /\ o.state.decision = s.decision
         /\ Unresolved(s) => Unresolved(o.state)
<1>1. PICK results \in {"extraction_failed", "validation_failed", "validated"},
           found \in SUBSET {"open", "resolved"} :
        o = Return([s EXCEPT !.phase = "review", !.results = results,
                             !.discrepancies = @ \cup found])
  BY Zenon DEF ProcessingNode
<1> QED
  BY <1>1 DEF Return, Outcome, ApplicantState, Phases, Unresolved

LEMMA OutcomesOfReview ==
  ASSUME NEW s \in ApplicantState, NEW answer \in Answers, NEW o \in ReviewNode(s, answer)
  PROVE  /\ o.state \in ApplicantState /\ o.inserted = {}
         /\ o.state.docs = s.docs /\ o.state.category = s.category
         /\ o.state.decision = s.decision /\ o.state.files = s.files
         /\ o.end = "interrupt" => answer = "none"
         /\ Unresolved(o.state) <=> Unresolved(s)
         /\ \/ o.end = "interrupt" /\ o.state = s
            \/ o.end = "return" /\ o.state.phase \in {"document_collection", "review"}
            \/ o.end = "return" /\ o.state.phase = "decision" /\ ~Unresolved(s)
<1>1. \/ o = Return([s EXCEPT !.phase = "document_collection", !.newDocs = FALSE])
      \/ ~Unresolved(s) /\ o = Return([s EXCEPT !.phase = "decision"])
      \/ answer = "none" /\ o = Interrupt(s)
      \/ o = Return([s EXCEPT !.phase = "review",
            !.discrepancies = @ \cup (IF answer = "full" THEN {"resolved"} ELSE {})])
  BY DEF ReviewNode
<1>2. CASE o = Return([s EXCEPT !.phase = "document_collection", !.newDocs = FALSE])
  BY <1>2 DEF Return, Outcome, ApplicantState, Phases, Unresolved
<1>3. CASE ~Unresolved(s) /\ o = Return([s EXCEPT !.phase = "decision"])
  BY <1>3 DEF Return, Outcome, ApplicantState, Phases, Unresolved
<1>4. CASE answer = "none" /\ o = Interrupt(s)
  BY <1>4 DEF Interrupt, Outcome
<1>5. CASE o = Return([s EXCEPT !.phase = "review",
             !.discrepancies = @ \cup (IF answer = "full" THEN {"resolved"} ELSE {})])
  BY <1>5 DEF Return, Outcome, ApplicantState, Phases, Unresolved
<1> QED
  BY <1>1, <1>2, <1>3, <1>4, <1>5

LEMMA OutcomesOfDecision ==
  ASSUME NEW s \in ApplicantState, NEW o \in DecisionNode(s)
  PROVE  /\ o.state \in ApplicantState /\ o.inserted = {}
         /\ o.state.docs = s.docs /\ o.state.files = s.files
         /\ o.state.category = s.category /\ o.state.discrepancies = s.discrepancies
         /\ \/ o.end = "raise" /\ o.state = s
            \/ o.end = "return" /\ o.state.phase = "enablement" /\ o.state.decision \in Decisions
<1>1. CASE o = Raise(s)
  BY <1>1 DEF Raise, Outcome
<1>2. ASSUME NEW d \in Decisions,
             o = Return([s EXCEPT !.phase = "enablement", !.decision = d])
      PROVE  /\ o.end = "return" /\ o.state \in ApplicantState /\ o.inserted = {}
             /\ o.state.phase = "enablement" /\ o.state.docs = s.docs
             /\ o.state.files = s.files /\ o.state.category = s.category
             /\ o.state.discrepancies = s.discrepancies /\ o.state.decision = d
  BY <1>2 DEF Return, Outcome, ApplicantState, Phases
<1> QED
  BY <1>1, <1>2 DEF DecisionNode

LEMMA OutcomesOfEnablement ==
  ASSUME NEW s \in ApplicantState, NEW answer \in Answers, NEW o \in EnablementNode(s, answer)
  PROVE  /\ o.state \in ApplicantState /\ o.inserted = {}
         /\ o.state.docs = s.docs /\ o.state.category = s.category /\ o.state.files = s.files
         /\ o.state.discrepancies = s.discrepancies /\ o.state.decision = s.decision
         /\ \/ o.end = "interrupt" /\ o.state = s /\ answer = "none"
            \/ o.end = "return" /\ o.state.phase = "enablement"
<1>1. \/ answer = "none" /\ o = Interrupt(s)
      \/ o = Return([s EXCEPT !.phase = "enablement"])
  BY DEF EnablementNode
<1> QED
  BY <1>1 DEF Interrupt, Return, Outcome, ApplicantState, Phases

-----------------------------------------------------------------------------
(* A node and the phase its state is in. *)

At(node, s) ==
  /\ node = "intake" => s.phase \in {"authentication", "intake"}
  /\ node = "end" => s.phase = "enablement"
  /\ node \in Phases \ {"intake"} => s.phase = node

LEMMA NodeType ==
  ASSUME NEW s \in ApplicantState, NEW node \in Phases, NEW answer \in Answers,
         NEW o \in Outcomes(node, s, answer)
  PROVE  /\ o.state \in ApplicantState /\ o.inserted \in SUBSET Paths
         /\ o.end \in {"return", "interrupt", "raise"}
         /\ o.end # "return" => o.state = s
         /\ o.end = "interrupt" =>
              node \in {"intake", "document_collection", "review", "enablement"}
<1>1. CASE node = "authentication"
  BY <1>1, OutcomesOfAuthentication DEF Outcomes
<1>2. CASE node = "intake"
  BY <1>2, OutcomesOfIntake DEF Outcomes
<1>3. CASE node = "document_collection"
  BY <1>3, OutcomesOfDocumentCollection DEF Outcomes
<1>4. CASE node = "processing"
  BY <1>4, OutcomesOfProcessing DEF Outcomes
<1>5. CASE node = "review"
  BY <1>5, OutcomesOfReview DEF Outcomes
<1>6. CASE node = "decision"
  BY <1>6, OutcomesOfDecision DEF Outcomes
<1>7. CASE node = "enablement"
  BY <1>7, OutcomesOfEnablement DEF Outcomes
<1> QED
  BY <1>1, <1>2, <1>3, <1>4, <1>5, <1>6, <1>7 DEF Phases

(* What a node hands to its successor: an earned phase, a state the phase   *)
(* fits, and from document collection on no less than it was given.        *)
LEMMA NodeReturns ==
  ASSUME NEW s \in ApplicantState, NEW node \in Phases, NEW answer \in Answers,
         NEW o \in Outcomes(node, s, answer), o.end = "return",
         Earned(node, s), At(node, s)
  PROVE  /\ Successor(node, o.state) \in Phases \cup {"end"}
         /\ At(Successor(node, o.state), o.state)
         /\ Earned(Successor(node, o.state), o.state)
         /\ node \notin {"authentication", "intake"} =>
              /\ Successor(node, o.state) \notin {"authentication", "intake"}
              /\ o.state.category = s.category
              /\ Listed(s.docs) \subseteq Listed(o.state.docs)
         /\ node = "enablement" =>
              Successor(node, o.state) = "end" /\ o.state.decision = s.decision
<1> USE DEF Successor, RouteByPhase, At, Earned, Collecting, Deciding, Decided, Phases
<1>1. CASE node = "authentication"
  BY <1>1, OutcomesOfAuthentication DEF Outcomes
<1>2. CASE node = "intake"
  BY <1>2, OutcomesOfIntake DEF Outcomes
<1>3. CASE node = "document_collection"
  BY <1>3, OutcomesOfDocumentCollection DEF Outcomes
<1>4. CASE node = "processing"
  BY <1>4, OutcomesOfProcessing DEF Outcomes, Complete, RequiredFor
<1>5. CASE node = "review"
  BY <1>5, OutcomesOfReview DEF Outcomes, Complete, RequiredFor
<1>6. CASE node = "decision"
  BY <1>6, OutcomesOfDecision, DecisionsAssumption DEF Outcomes, Complete, RequiredFor, Unresolved
<1>7. CASE node = "enablement"
  BY <1>7, OutcomesOfEnablement DEF Outcomes, Complete, RequiredFor, Unresolved
<1> QED
  BY <1>1, <1>2, <1>3, <1>4, <1>5, <1>6, <1>7

(* What no node takes back: the files, a discrepancy that is open, the fact *)
(* of a decision.  And no node that was given an answer asks another        *)
(* question.                                                               *)
LEMMA NodeKeeps ==
  ASSUME NEW s \in ApplicantState, NEW node \in Phases, NEW answer \in Answers,
         NEW o \in Outcomes(node, s, answer)
  PROVE  /\ o.state.files = s.files
         /\ Unresolved(s) => Unresolved(o.state)
         /\ node \in {"decision", "enablement"} /\ Unresolved(o.state) => Unresolved(s)
         /\ s.decision # "none" => o.state.decision # "none"
         /\ o.end = "interrupt" => answer = "none"
<1> USE DEF Unresolved
<1>1. CASE node = "authentication"
  BY <1>1, OutcomesOfAuthentication DEF Outcomes
<1>2. CASE node = "intake"
  BY <1>2, OutcomesOfIntake DEF Outcomes
<1>3. CASE node = "document_collection"
  BY <1>3, OutcomesOfDocumentCollection DEF Outcomes
<1>4. CASE node = "processing"
  BY <1>4, OutcomesOfProcessing DEF Outcomes
<1>5. CASE node = "review"
  BY <1>5, OutcomesOfReview DEF Outcomes
<1>6. CASE node = "decision"
  BY <1>6, OutcomesOfDecision, DecisionsAssumption DEF Outcomes
<1>7. CASE node = "enablement"
  BY <1>7, OutcomesOfEnablement DEF Outcomes
<1> QED
  BY <1>1, <1>2, <1>3, <1>4, <1>5, <1>6, <1>7 DEF Phases

-----------------------------------------------------------------------------
(* How far a call is from its end. *)

(* A bounded set of numbers that is not empty has a greatest one. *)
LEMMA GreatestOf ==
  ASSUME NEW n \in Nat, NEW S \in SUBSET (0..n), S # {}
  PROVE  \E m \in S : \A k \in S : m >= k
<1> DEFINE T == {n - k : k \in S}
           less == {pair \in Nat \X Nat : pair[1] < pair[2]}
<1>1. \A k \in S : n - k \in Nat
  OBVIOUS
<1>2. T \subseteq Nat /\ T # {}
  BY <1>1
<1>3. IsWellFoundedOn(less, Nat)
  BY NatLessThanWellFounded DEF OpToRel
<1> HIDE DEF T, less
<1>4. PICK t \in T : \A u \in T : ~(<<u, t>> \in less)
  BY <1>2, <1>3, WFMin
<1> USE DEF T, less
<1>5. PICK m \in S : t = n - m
  OBVIOUS
<1>6. ASSUME NEW k \in S PROVE m >= k
  <2>1. n - k \in T /\ n - k \in Nat /\ t \in Nat
    BY <1>1, <1>2
  <2>2. ~(n - k < t)
    BY <1>4, <2>1
  <2> QED
    BY <1>5, <2>2
<1> QED
  BY <1>6

LEMMA RoomIs ==
  ASSUME NEW s \in ApplicantState
  PROVE  /\ Room(s) \in 0..MaxFiles
         /\ \A p \in Listed(s.files) : Room(s) >= MaxFiles - s.docs[p]
         /\ Room(s) # 0 => \E p \in Listed(s.files) : Room(s) = MaxFiles - s.docs[p]
<1> DEFINE S == {0} \cup {MaxFiles - s.docs[p] : p \in Listed(s.files)}
<1>1. MaxFiles \in Nat /\ \A p \in Listed(s.files) : s.docs[p] \in 0..MaxFiles
  BY MaxFilesAssumption DEF ApplicantState, Listed
<1>2. S \in SUBSET (0..MaxFiles) /\ 0 \in S
  <2>1. \A p \in Listed(s.files) : MaxFiles - s.docs[p] \in 0..MaxFiles
    BY <1>1
  <2> QED
    BY <1>1, <2>1
<1>3. \E m \in S : \A k \in S : m >= k
  <2> HIDE DEF S
  <2> QED
    BY <1>1, <1>2, GreatestOf
<1>4. Room(s) \in S /\ \A k \in S : Room(s) >= k
  <2>1. Room(s) = CHOOSE m \in S : \A k \in S : m >= k
    BY DEF Room, Max
  <2> HIDE DEF S
  <2> QED
    BY <1>3, <2>1
<1> QED
  BY <1>2, <1>4

(* Document collection doubles what there is of every file and counts what *)
(* is new in full: the room falls while there is any.                      *)
LEMMA CollectingFillsRoom ==
  ASSUME NEW s \in ApplicantState, NEW t \in ApplicantState, t.files = s.files,
         t.docs = AddEntries(s.docs, UploadedDocuments(s))
  PROVE  /\ Room(t) <= Room(s)
         /\ Room(s) # 0 => Room(t) < Room(s)
         /\ Room(s) = 0 => Unclassified(s) = {}
<1>1. /\ MaxFiles \in Nat /\ MaxFiles > 0
      /\ Room(s) \in Nat /\ Room(t) \in Nat
      /\ s.docs \in [Paths -> 0..MaxFiles] /\ s.files \in [Paths -> 0..MaxFiles]
      /\ UploadedDocuments(s) \in [Paths -> 0..MaxFiles]
  BY MaxFilesAssumption, RoomIs, UploadedDocumentsType DEF ApplicantState
<1>2. ASSUME NEW p \in Listed(s.files)
      PROVE  t.docs[p] = MaxFiles \/ t.docs[p] > s.docs[p]
  <2>1. p \in Paths /\ s.files[p] > 0
    BY DEF Listed
  <2>2. UploadedDocuments(s)[p] > 0
    BY <1>1, <2>1 DEF UploadedDocuments, Unclassified
  <2>3. t.docs[p] = UpTo(s.docs[p] + UploadedDocuments(s)[p])
    BY <2>1 DEF AddEntries
  <2>4. s.docs[p] \in Nat /\ UploadedDocuments(s)[p] \in Nat
    BY <1>1, <2>1
  <2> QED
    BY <1>1, <2>2, <2>3, <2>4 DEF UpTo
<1>3. Room(s) = 0 => Unclassified(s) = {}
  <2> SUFFICES ASSUME Room(s) = 0, NEW p \in Unclassified(s) PROVE FALSE
    OBVIOUS
  <2>1. p \in Listed(s.files) /\ s.docs[p] = 0
    BY DEF Unclassified
  <2> QED
    BY <1>1, <2>1, RoomIs
<1>4. CASE Room(t) = 0
  BY <1>1, <1>4, <1>3
<1>5. CASE Room(t) # 0
  <2>1. PICK p \in Listed(s.files) : Room(t) = MaxFiles - t.docs[p]
    BY <1>5, RoomIs
  <2>2. s.docs[p] \in 0..MaxFiles /\ t.docs[p] \in 0..MaxFiles
    BY <1>1 DEF Listed, ApplicantState
  <2>3. t.docs[p] > s.docs[p]
    BY <1>1, <1>2, <1>5, <2>1, <2>2
  <2>4. Room(s) >= MaxFiles - s.docs[p]
    BY RoomIs
  <2> QED
    BY <1>1, <1>5, <1>3, <2>1, <2>2, <2>3, <2>4
<1> QED
  BY <1>4, <1>5

(* Where the files have more entries than the documents of the same paths, *)
(* one of these paths has.                                                 *)
LEMMA FewerEntries ==
  ASSUME NEW f \in [Paths -> 0..MaxFiles], NEW g \in [Paths -> 0..MaxFiles],
         Entries(f, Paths) > Entries(g, Listed(f))
  PROVE  \E p \in Listed(f) : g[p] < f[p]
<1> DEFINE F == {entry \in Paths \X (1..MaxFiles) : entry[2] <= f[entry[1]]}
           G == {entry \in Listed(f) \X (1..MaxFiles) : entry[2] <= g[entry[1]]}
<1> SUFFICES ASSUME \A p \in Listed(f) : ~(g[p] < f[p]) PROVE FALSE
  OBVIOUS
<1>1. IsFiniteSet(G)
  <2>1. IsFiniteSet(Listed(f)) /\ IsFiniteSet(1..MaxFiles)
    BY PathsAssumption, MaxFilesAssumption, FS_Subset, FS_Interval DEF Listed
  <2>2. IsFiniteSet(Listed(f) \X (1..MaxFiles))
    BY <2>1, FS_Product
  <2> QED
    BY <2>2, FS_Subset
<1>2. F \subseteq G
  <2> SUFFICES ASSUME NEW p \in Paths, NEW n \in 1..MaxFiles, n <= f[p]
               PROVE  p \in Listed(f) /\ n <= g[p]
    OBVIOUS
  <2>1. f[p] \in 0..MaxFiles /\ g[p] \in 0..MaxFiles
    OBVIOUS
  <2>2. p \in Listed(f)
    BY <2>1, MaxFilesAssumption DEF Listed
  <2> QED
    BY <2>1, <2>2, MaxFilesAssumption
<1> HIDE DEF F, G
<1>3. Cardinality(F) <= Cardinality(G) /\ Cardinality(F) \in Nat /\ Cardinality(G) \in Nat
  BY <1>1, <1>2, FS_Subset, FS_CardinalityType
<1>4. Entries(f, Paths) = Cardinality(F) /\ Entries(g, Listed(f)) = Cardinality(G)
  BY DEF Entries, F, G
<1> QED
  BY <1>3, <1>4

LEMMA NodesToRunAre ==
  ASSUME NEW s
  PROVE  /\ NodesToRun("authentication", s) = 4 * Rounds(s) + 8
         /\ NodesToRun("intake", s) = 4 * Rounds(s) + 7
         /\ NodesToRun("document_collection", s) =
              4 * Rounds(s) + (IF Room(s) = 0 THEN 6 ELSE 3)
         /\ NodesToRun("processing", s) = 4 * Rounds(s) + 5
         /\ NodesToRun("review", s) = 4 * Rounds(s) + 4
         /\ NodesToRun("decision", s) = 2
         /\ NodesToRun("enablement", s) = 1
         /\ NodesToRun("end", s) = 0
BY DEF NodesToRun

LEMMA RoundsIs ==
  ASSUME NEW s \in ApplicantState
  PROVE  /\ Room(s) \in Nat /\ Rounds(s) \in Nat
         /\ Rounds(s) = 2 * Room(s) + (IF s.newDocs THEN 1 ELSE 0)
BY RoomIs, MaxFilesAssumption DEF Rounds, ApplicantState

LEMMA NodesToRunIs ==
  ASSUME NEW s \in ApplicantState, NEW node \in Phases \cup {"end"}
  PROVE  NodesToRun(node, s) \in 0..(8 * MaxFiles + 12)
<1>1. Room(s) \in 0..MaxFiles /\ MaxFiles \in Nat /\ MaxFiles > 0
  BY RoomIs, MaxFilesAssumption
<1>2. Rounds(s) \in 0..(2 * MaxFiles + 1)
  BY <1>1 DEF Rounds
<1> QED
  BY <1>1, <1>2, NodesToRunAre DEF Phases

(* Nothing before document collection touches files or documents. *)
LEMMA OpeningKeeps ==
  ASSUME NEW s \in ApplicantState, NEW node \in {"authentication", "intake"},
         NEW answer \in Answers, NEW o \in Outcomes(node, s, answer), o.end = "return"
  PROVE  /\ o.state.files = s.files /\ o.state.docs = s.docs /\ o.state.newDocs = s.newDocs
         /\ Successor(node, o.state) = "intake" =>
              node = "authentication" \/ answer # "none"
         /\ Successor(node, o.state) \in {"intake", "document_collection"}
<1>1. CASE node = "authentication"
  <2>1. o \in AuthenticationNode(s)
    BY <1>1 DEF Outcomes
  <2>2. \E id : o = Return(IF EmiratesIdValid(id)
                           THEN [s EXCEPT !.phase = "intake", !.identity = id]
                           ELSE [s EXCEPT !.phase = "authentication"])
    BY <2>1, Zenon DEF AuthenticationNode
  <2>3. /\ o.state.files = s.files /\ o.state.docs = s.docs /\ o.state.newDocs = s.newDocs
    BY <2>2 DEF Return, Outcome, ApplicantState
  <2> QED
    BY <1>1, <2>3 DEF Successor
<1>2. CASE node = "intake"
  <2>1. o \in IntakeNode(s, answer)
    BY <1>2 DEF Outcomes
  <2>2. \/ o = Interrupt(s)
        \/ \E c \in Categories :
             o = Return([s EXCEPT !.category = c, !.phase = "document_collection"])
        \/ o = Raise(s)
        \/ answer # "none" /\ \E c \in Categories \cup {"none"} :
             o = Return([s EXCEPT !.category = c, !.phase = "intake"])
    BY <2>1, Zenon DEF IntakeNode
  <2>3. o # Interrupt(s) /\ o # Raise(s)
    BY DEF Interrupt, Raise, Outcome
  <2>4. Successor(node, o.state) = o.state.phase
    BY <1>2 DEF Successor, RouteByPhase
  <2>5. ASSUME NEW c \in Categories,
               o = Return([s EXCEPT !.category = c, !.phase = "document_collection"])
        PROVE  /\ o.state.files = s.files /\ o.state.docs = s.docs
               /\ o.state.newDocs = s.newDocs /\ o.state.phase = "document_collection"
    BY <2>5 DEF Return, Outcome, ApplicantState
  <2>6. ASSUME answer # "none", NEW c \in Categories \cup {"none"},
               o = Return([s EXCEPT !.category = c, !.phase = "intake"])
        PROVE  /\ o.state.files = s.files /\ o.state.docs = s.docs
               /\ o.state.newDocs = s.newDocs /\ o.state.phase = "intake"
    BY <2>6 DEF Return, Outcome, ApplicantState
  <2> QED
    BY <2>2, <2>3, <2>4, <2>5, <2>6
<1> QED
  BY <1>1, <1>2

LEMMA OpeningNodesLower ==
  ASSUME NEW s \in ApplicantState, NEW node \in {"authentication", "intake"},
         NEW answer \in Answers, NEW o \in Outcomes(node, s, answer), o.end = "return"
  PROVE  NodesLeft(Successor(node, o.state), o.state, "none") < NodesLeft(node, s, answer)
<1>1. /\ Room(o.state) = Room(s) /\ Rounds(o.state) = Rounds(s)
      /\ Successor(node, o.state) = "intake" => node = "authentication" \/ answer # "none"
      /\ Successor(node, o.state) \in {"intake", "document_collection"}
  <2>1. /\ o.state.files = s.files /\ o.state.docs = s.docs /\ o.state.newDocs = s.newDocs
        /\ Successor(node, o.state) = "intake" => node = "authentication" \/ answer # "none"
        /\ Successor(node, o.state) \in {"intake", "document_collection"}
    BY OpeningKeeps
  <2>2. Room(o.state) = Room(s)
    BY <2>1 DEF Room
  <2> QED
    BY <2>1, <2>2 DEF Rounds
<1>2. Room(s) \in Nat /\ Rounds(s) \in Nat
  BY RoundsIs
<1>3. /\ NodesToRun("document_collection", o.state) <= 4 * Rounds(s) + 6
      /\ NodesToRun("intake", o.state) = 4 * Rounds(s) + 7
      /\ NodesToRun("document_collection", o.state) \in Nat
  BY <1>1, <1>2, NodesToRunAre
<1>4. CASE Successor(node, o.state) = "document_collection"
  <2>1. NodesToRun(node, s) \in Nat /\ NodesToRun(node, s) >= 4 * Rounds(s) + 7
    BY <1>2, NodesToRunAre
  <2> QED
    BY <1>2, <1>3, <1>4, <2>1 DEF NodesLeft
<1>5. CASE Successor(node, o.state) = "intake" /\ node = "authentication"
  BY <1>2, <1>3, <1>5, NodesToRunAre DEF NodesLeft
<1>6. CASE Successor(node, o.state) = "intake" /\ node = "intake" /\ answer # "none"
  BY <1>2, <1>3, <1>6, NodesToRunAre DEF NodesLeft
<1> QED
  BY <1>1, <1>4, <1>5, <1>6

LEMMA CollectionLowers ==
  ASSUME NEW s \in ApplicantState, NEW answer \in Answers,
         NEW o \in DocumentCollectionNode(s, answer), o.end = "return"
  PROVE  NodesLeft(Successor("document_collection", o.state), o.state, "none")
           < NodesLeft("document_collection", s, answer)
<1> DEFINE arrived == Unclassified(s) # {}
           t == o.state
<1>1. \/ \E inserted \in SUBSET Unclassified(s) :
           o = Outcome("return", Collected(s, "processing", arrived), inserted)
      \/ \E inserted \in SUBSET Unclassified(s) : o = Outcome("raise", s, inserted)
      \/ o = Interrupt(s)
      \/ answer # "none" /\ o = Return(Collected(s, "document_collection", s.newDocs))
  BY Zenon DEF DocumentCollectionNode
<1> HIDE DEF arrived
<1>2. \/ t = Collected(s, "processing", arrived)
      \/ answer # "none" /\ t = Collected(s, "document_collection", s.newDocs)
  BY <1>1 DEF Outcome, Return, Interrupt
<1>3. arrived \in BOOLEAN /\ s.newDocs \in BOOLEAN
      /\ "processing" \in Phases /\ "document_collection" \in Phases
  BY DEF arrived, ApplicantState, Phases
<1>4. /\ t \in ApplicantState /\ t.files = s.files
      /\ t.docs = AddEntries(s.docs, UploadedDocuments(s))
  BY <1>2, <1>3, CollectedType
<1>5. \/ t.phase = "processing" /\ t.newDocs = arrived
      \/ answer # "none" /\ t.phase = "document_collection" /\ t.newDocs = s.newDocs
  BY <1>2 DEF Collected, ApplicantState
<1> HIDE DEF t
<1>6. /\ Room(t) <= Room(s)
      /\ Room(s) # 0 => Room(t) < Room(s)
      /\ Room(s) = 0 => ~arrived
      /\ Room(s) \in Nat /\ Room(t) \in Nat
  BY <1>4, CollectingFillsRoom, RoomIs, MaxFilesAssumption DEF arrived
<1>7. /\ Rounds(s) = 2 * Room(s) + (IF s.newDocs THEN 1 ELSE 0)
      /\ Rounds(t) = 2 * Room(t) + (IF t.newDocs THEN 1 ELSE 0)
  BY <1>4, RoundsIs
<1>8. Successor("document_collection", t) = t.phase
  BY DEF Successor, RouteByPhase
<1>9. CASE t.phase = "processing" /\ t.newDocs = arrived
  <2>1. NodesLeft("processing", t, "none") = 4 * Rounds(t) + 5
    BY NodesToRunAre, <1>4, RoundsIs DEF NodesLeft
  <2>2. NodesLeft("document_collection", s, answer)
          >= 4 * Rounds(s) + (IF Room(s) = 0 THEN 6 ELSE 3)
    BY NodesToRunAre, RoundsIs DEF NodesLeft
  <2>3. 4 * Rounds(t) + 5 < 4 * Rounds(s) + (IF Room(s) = 0 THEN 6 ELSE 3)
    <3>1. CASE Room(s) = 0
      <4>1. Room(t) = 0 /\ ~t.newDocs
        BY <1>6, <1>9, <3>1
      <4> QED
        BY <1>3, <1>7, <3>1, <4>1
    <3>2. CASE Room(s) # 0
      BY <1>3, <1>6, <1>7, <1>9, <3>2
    <3> QED
      BY <3>1, <3>2
  <2>4. NodesLeft("document_collection", s, answer) \in Nat
    BY NodesToRunAre, RoundsIs DEF NodesLeft
  <2> QED
    BY <1>4, <1>8, <1>9, <2>1, <2>2, <2>3, <2>4, RoundsIs DEF t
<1>10. CASE answer # "none" /\ t.phase = "document_collection" /\ t.newDocs = s.newDocs
  <2>1. NodesLeft("document_collection", t, "none")
          = 4 * Rounds(t) + (IF Room(t) = 0 THEN 6 ELSE 3)
    BY NodesToRunAre, <1>4, RoundsIs DEF NodesLeft
  <2>2. NodesLeft("document_collection", s, answer)
          = 4 * Rounds(s) + (IF Room(s) = 0 THEN 6 ELSE 3) + 1
    BY <1>10, NodesToRunAre, RoundsIs DEF NodesLeft
  <2>3. 4 * Rounds(t) + (IF Room(t) = 0 THEN 6 ELSE 3)
          < 4 * Rounds(s) + (IF Room(s) = 0 THEN 6 ELSE 3) + 1
    <3>1. CASE Room(s) = 0
      <4>1. Room(t) = 0
        BY <1>6, <3>1
      <4> QED
        BY <1>3, <1>7, <1>10, <3>1, <4>1
    <3>2. CASE Room(s) # 0
      BY <1>3, <1>6, <1>7, <1>10, <3>2
    <3> QED
      BY <3>1, <3>2
  <2> QED
    BY <1>8, <1>10, <2>1, <2>2, <2>3 DEF t
<1> QED
  BY <1>5, <1>9, <1>10

LEMMA ReviewLowers ==
  ASSUME NEW s \in ApplicantState, NEW answer \in Answers,
         NEW o \in ReviewNode(s, answer), o.end = "return"
  PROVE  NodesLeft(Successor("review", o.state), o.state, "none")
           < NodesLeft("review", s, answer)
<1> DEFINE t == o.state
<1>1. \/ NewFilesUploaded(s)
           /\ o = Return([s EXCEPT !.phase = "document_collection", !.newDocs = FALSE])
      \/ o = Return([s EXCEPT !.phase = "decision"])
      \/ o = Interrupt(s)
      \/ answer # "none" /\ o = Return([s EXCEPT !.phase = "review",
            !.discrepancies = @ \cup (IF answer = "full" THEN {"resolved"} ELSE {})])
  BY DEF ReviewNode
<1>2. /\ t.files = s.files /\ t.docs = s.docs
      /\ \/ NewFilesUploaded(s) /\ t.phase = "document_collection" /\ t.newDocs = FALSE
         \/ t.phase = "decision"
         \/ answer # "none" /\ t.phase = "review" /\ t.newDocs = s.newDocs
  <2>1. CASE NewFilesUploaded(s) /\
             o = Return([s EXCEPT !.phase = "document_collection", !.newDocs = FALSE])
    BY <2>1 DEF Return, Outcome, ApplicantState
  <2>2. CASE o = Return([s EXCEPT !.phase = "decision"])
    BY <2>2 DEF Return, Outcome, ApplicantState
  <2>3. CASE answer # "none" /\ o = Return([s EXCEPT !.phase = "review",
              !.discrepancies = @ \cup (IF answer = "full" THEN {"resolved"} ELSE {})])
    BY <2>3 DEF Return, Outcome, ApplicantState
  <2>4. o # Interrupt(s)
    BY DEF Interrupt, Outcome
  <2> QED
    BY <1>1, <2>1, <2>2, <2>3, <2>4
<1>3. Room(t) = Room(s) /\ Room(s) \in Nat /\ s.newDocs \in BOOLEAN
  BY <1>2, RoomIs, MaxFilesAssumption DEF Room, ApplicantState
<1>4. NewFilesUploaded(s) => s.newDocs \/ Room(s) > 0
  <2> SUFFICES ASSUME NewFilesUploaded(s), ~s.newDocs PROVE Room(s) > 0
    BY <1>3
  <2>1. s.files \in [Paths -> 0..MaxFiles] /\ s.docs \in [Paths -> 0..MaxFiles]
    BY DEF ApplicantState
  <2>2. PICK p \in Listed(s.files) : s.docs[p] < s.files[p]
    BY <2>1, FewerEntries DEF NewFilesUploaded
  <2>3. s.files[p] \in 0..MaxFiles /\ s.docs[p] \in 0..MaxFiles /\ MaxFiles \in Nat
    BY <2>1, MaxFilesAssumption DEF Listed
  <2>4. Room(s) >= MaxFiles - s.docs[p]
    BY RoomIs
  <2> QED
    BY <1>3, <2>2, <2>3, <2>4
<1> HIDE DEF t
<1>5. /\ Rounds(s) = 2 * Room(s) + (IF s.newDocs THEN 1 ELSE 0)
      /\ Rounds(t) = 2 * Room(t) + (IF t.newDocs THEN 1 ELSE 0)
      /\ Rounds(s) \in Nat
  BY RoundsIs DEF Rounds
<1>6. Successor("review", t) = t.phase
  BY DEF Successor, RouteByPhase
<1>7. CASE NewFilesUploaded(s) /\ t.phase = "document_collection" /\ t.newDocs = FALSE
  <2>1. 4 * Rounds(t) + (IF Room(t) = 0 THEN 6 ELSE 3) < 4 * Rounds(s) + 4
    <3>1. CASE s.newDocs
      BY <1>3, <1>5, <1>7, <3>1
    <3>2. CASE ~s.newDocs
      <4>1. Room(s) > 0
        BY <1>4, <1>7, <3>2
      <4> QED
        BY <1>3, <1>5, <1>7, <3>2, <4>1
    <3> QED
      BY <3>1, <3>2
  <2>2. Rounds(t) \in Nat
    BY <1>3, <1>5, <1>7
  <2>3. NodesLeft("document_collection", t, "none")
          = 4 * Rounds(t) + (IF Room(t) = 0 THEN 6 ELSE 3)
    BY <2>2, NodesToRunAre DEF NodesLeft
  <2>4. NodesLeft("review", s, answer) \in {4 * Rounds(s) + 4, 4 * Rounds(s) + 5}
    BY <1>5, NodesToRunAre DEF NodesLeft
  <2> QED
    BY <1>3, <1>5, <1>6, <1>7, <2>1, <2>2, <2>3, <2>4 DEF t
<1>8. CASE t.phase = "decision"
  <2>1. NodesLeft("decision", t, "none") = 2
    BY NodesToRunAre DEF NodesLeft
  <2>2. NodesLeft("review", s, answer) >= 4 * Rounds(s) + 4
    BY <1>5, NodesToRunAre DEF NodesLeft
  <2>3. NodesLeft("review", s, answer) \in Nat
    BY <1>5, NodesToRunAre DEF NodesLeft
  <2> QED
    BY <1>5, <1>6, <1>8, <2>1, <2>2, <2>3 DEF t
<1>9. CASE answer # "none" /\ t.phase = "review" /\ t.newDocs = s.newDocs
  <2>1. Rounds(t) = Rounds(s)
    BY <1>3, <1>5, <1>9
  <2>2. NodesLeft("review", t, "none") = 4 * Rounds(s) + 4
    BY <1>5, <2>1, NodesToRunAre DEF NodesLeft
  <2>3. NodesLeft("review", s, answer) = 4 * Rounds(s) + 5
    BY <1>5, <1>9, NodesToRunAre DEF NodesLeft
  <2> QED
    BY <1>5, <1>6, <1>9, <2>2, <2>3 DEF t
<1> QED
  BY <1>2, <1>7, <1>8, <1>9

(* Whichever node runs and whatever it returns, fewer are left to run. *)
LEMMA NodeLowers ==
  ASSUME NEW s \in ApplicantState, NEW node \in Phases, NEW answer \in Answers,
         NEW o \in Outcomes(node, s, answer), o.end = "return"
  PROVE  NodesLeft(Successor(node, o.state), o.state, "none") < NodesLeft(node, s, answer)
<1>1. CASE node \in {"authentication", "intake"}
  BY <1>1, OpeningNodesLower
<1>2. CASE node = "document_collection"
  BY <1>2, CollectionLowers DEF Outcomes
<1>3. CASE node = "processing"
  <2>1. o \in ProcessingNode(s)
    BY <1>3 DEF Outcomes
  <2>2. PICK results \in {"extraction_failed", "validation_failed", "validated"},
             found \in SUBSET {"open", "resolved"} :
          o = Return([s EXCEPT !.phase = "review", !.results = results,
                               !.discrepancies = @ \cup found])
    BY <2>1, Zenon DEF ProcessingNode
  <2>3. /\ o.state.files = s.files /\ o.state.docs = s.docs /\ o.state.newDocs = s.newDocs
    BY <2>2 DEF Return, Outcome, ApplicantState
  <2>4. Room(o.state) = Room(s) /\ Rounds(o.state) = Rounds(s)
    BY <2>3 DEF Room, Rounds
  <2>5. Rounds(s) \in Nat
    BY RoundsIs
  <2>6. Successor(node, o.state) = "review"
    BY <1>3 DEF Successor
  <2> QED
    BY <1>3, <2>4, <2>5, <2>6, NodesToRunAre DEF NodesLeft
<1>4. CASE node = "review"
  BY <1>4, ReviewLowers DEF Outcomes
<1>5. CASE node = "decision"
  <2>1. Successor(node, o.state) = "enablement"
    BY <1>5 DEF Successor
  <2> QED
    BY <1>5, <2>1, NodesToRunAre DEF NodesLeft
<1>6. CASE node = "enablement"
  <2>1. Successor(node, o.state) = "end"
    BY <1>6 DEF Successor
  <2> QED
    BY <1>6, <2>1, NodesToRunAre DEF NodesLeft
<1> QED
  BY <1>1, <1>2, <1>3, <1>4, <1>5, <1>6 DEF Phases

LEMMA EmptyStateType == EmptyState \in ApplicantState
BY MaxFilesAssumption DEF EmptyState, ApplicantState, Phases
=============================================================================
