--------------------------- MODULE DocumentProofs ---------------------------
(***************************************************************************)
(* Theorems about the components that make and read documents, the         *)
(* processing node and the generators of test applicants, and about the    *)
(* circuit breaker and the retries the node's two agents run behind: first *)
(* ProcessingPhase, then ApplicantPackages, then CircuitBreaker.  The      *)
(* three share no variable.                                                *)
(*                                                                         *)
(* What ProcessingPhase's theorems rest on: what is extracted is, document *)
(* by document, what Gate 1 let through; and the nodes of the validation   *)
(* graph change the entries of the list in place and hand back all of them.*)
(***************************************************************************)
EXTENDS ProcessingPhase, ApplicantPackages, CircuitBreaker,
        TLAPS, FiniteSetTheorems, WellFoundedInduction, SequenceTheorems

(* Sequences, of whatever elements. *)
IsSeq(s) == s \in Seq(Range(s))

IsEntry(e) ==
  e = [type |-> e.type, measure |-> e.measure, key |-> e.key,
       class |-> e.class, status |-> e.status, question |-> e.question]

(* What has been extracted is of the documents before the current one, each *)
(* under its own id, and passed Gate 1; while no document was given up     *)
(* there is one for each of them.                                          *)
Extracted(n) ==
  /\ \A id \in DOMAIN byId : \E i \in 1..n : uploads[i].id = id
  /\ \A i \in 1..n : uploads[i].id \in DOMAIN byId =>
       /\ byId[uploads[i].id] \in Readings
       /\ byId[uploads[i].id].type = uploads[i].type
       /\ DocumentIntegrity(byId[uploads[i].id])
  /\ passedAll => \A i \in 1..n : uploads[i].id \in DOMAIN byId

ExtractInv ==
  /\ uploads \in Uploads
  /\ index \in 1..(Len(uploads) + 1)
  /\ byId = [id \in DOMAIN byId |-> byId[id]]
  /\ Extracted(index - 1)

(* The documents go on as they were left by the last attempt of all, or     *)
(* not at all.                                                             *)
DataInv ==
  /\ pc = "extract" => data = NoData
  /\ data = NoData \/ (index > Len(uploads) /\ passedAll /\ data = ByType)

ListInv ==
  /\ IsSeq(list) /\ IsSeq(prior)
  /\ \A i \in DOMAIN list : IsEntry(list[i])
  /\ \A i \in DOMAIN prior : IsEntry(prior[i])

ResultsInv ==
  /\ results = [status |-> results.status, confidence |-> results.confidence,
                recommendation |-> results.recommendation, base |-> results.base,
                types |-> results.types]
  /\ results.base \in 0..100
  /\ pc = "extract" => results = NoResults

(* Where the graph is once it has judged the list, and once it has asked.  *)
Concluded == pc = "done" /\ results.status = "validated"
Settled == pc \in {"finalize_validation", "gate_2_completeness"} \/ Concluded
Judged == pc = "generate_clarification" \/ Settled

(* The application's own discrepancies are in the graph's list, changed as  *)
(* its entries are.                                                        *)
SharedInv ==
  pc \in ValidationNodes \/ Concluded =>
    \A i \in DOMAIN prior : \E j \in DOMAIN list : list[j] = prior[i]

(* The reducer has every entry twice when the list is judged.              *)
TwiceInv ==
  pc = "critique_validation" =>
    \A i \in DOMAIN list : \E j \in DOMAIN list : j # i /\ list[j] = list[i]

(* One critical entry, counted twice, costs 30 hundredths.                 *)
JudgedInv ==
  /\ Judged =>
       /\ results.status = "validated"
       /\ results.confidence \in 0..100
       /\ (\E i \in DOMAIN list : IsCritical(list[i])) => results.confidence <= 70
       /\ results.recommendation = "proceed_to_decision" =>
            \A i \in DOMAIN list : ~IsUnresolved(list[i])
  /\ Ended /\ ~Concluded => results.confidence = 0

AskedInv ==
  Settled => \A i \in DOMAIN list : IsUnresolvedReal(list[i]) =>
    /\ list[i].question # Absent
    /\ list[i].question.template \in {TypeKey(list[i]), "default"}

EndInv ==
  Concluded => /\ open = prior \o list
               /\ gate = "passed" => MissingItems(results.types, data, Required) = {}

IInv == /\ ExtractInv /\ DataInv /\ ListInv /\ ResultsInv /\ SharedInv
        /\ TwiceInv /\ JudgedInv /\ AskedInv /\ EndInv

-----------------------------------------------------------------------------
(* A bounded set of numbers that is not empty has a greatest one. *)
LEMMA GreatestOf ==
  ASSUME NEW n \in Nat, NEW S \in SUBSET (0..n), S # {}
  PROVE  \E m \in S : \A k \in S : k <= m
<1> DEFINE T == { n - k : k \in S }
<1>0. \A k \in S : k \in Int /\ 0 <= k /\ k <= n
  OBVIOUS
<1>1. T \subseteq Nat /\ T # {}
  <2>1. \A k \in S : n - k \in Nat
    BY <1>0
  <2>2. T \subseteq Nat
    BY <2>1
  <2>3. QED BY <2>2
<1> DEFINE less == { p \in Nat \X Nat : p[1] < p[2] }
<1>2. IsWellFoundedOn(less, Nat)
  BY NatLessThanWellFounded DEF OpToRel
<1> HIDE DEF T, less
<1>3. PICK t \in T : \A u \in T : ~(<<u, t>> \in less)
  BY <1>1, <1>2, WFMin
<1> USE DEF T, less
<1>4. PICK m \in S : t = n - m
  OBVIOUS
<1>5. ASSUME NEW k \in S PROVE k <= m
  <2>1. n - k \in T /\ n - k \in Nat /\ t \in Nat
    BY <1>1
  <2>2. ~(n - k < t)
    BY <1>3, <2>1
  <2>3. QED BY <1>0, <1>4, <2>2
<1>6. QED BY <1>5

LEMMA LeastOf ==
  ASSUME NEW n \in Nat, NEW S \in SUBSET (0..n), S # {}
  PROVE  \E m \in S : \A k \in S : m <= k
<1> DEFINE T == { n - k : k \in S }
<1>0. \A k \in S : k \in Int /\ n - k \in 0..n
  OBVIOUS
<1>1. T \in SUBSET (0..n) /\ T # {}
  BY <1>0
<1>2. PICK t \in T : \A u \in T : u <= t
  <2> HIDE DEF T
  <2>1. QED BY <1>1, GreatestOf
<1>3. PICK m \in S : t = n - m
  OBVIOUS
<1>4. ASSUME NEW k \in S PROVE m <= k
  <2>1. n - k <= n - m
    BY <1>2, <1>3
  <2>2. QED BY <1>0, <2>1
<1>5. QED BY <1>4

(* A set of the numbers from 0 to n that has the first, and with each its  *)
(* successor, has them all; so what a recursive function does at one       *)
(* number after another can be shown, for a set of numbers at a time.      *)
LEMMA ReachesAll ==
  ASSUME NEW n \in Nat, NEW T \in SUBSET (0..n),
         0 \in T, \A i \in 1..n : i - 1 \in T => i \in T
  PROVE  T = 0..n
<1> DEFINE B == (0..n) \ T
           less == { p \in Nat \X Nat : p[1] < p[2] }
<1>1. IsWellFoundedOn(less, Nat)
  BY NatLessThanWellFounded DEF OpToRel
<1> SUFFICES ASSUME B # {} PROVE FALSE
  OBVIOUS
<1>2. B \subseteq Nat
  OBVIOUS
<1> HIDE DEF B, less
<1>3. PICK x \in B : \A y \in B : ~(<<y, x>> \in less)
  BY <1>1, <1>2, WFMin
<1> USE DEF B, less
<1>4. x \in 1..n /\ x - 1 \in 0..n
  BY <1>3
<1>5. x - 1 \notin B
  <2>1. <<x - 1, x>> \in less
    BY <1>4
  <2>2. QED BY <1>3, <2>1
<1>6. QED BY <1>3, <1>4, <1>5

(* A function that is defined at every number from the one before exists.  *)
GoesBy(g, first, n, step) ==
  g[0] = first /\ \A i \in 1..n : g[i] = step[<<i, g[i - 1]>>]

LEMMA RecursionExists ==
  ASSUME NEW S, NEW e \in S, NEW n \in Nat, NEW step \in [(1..n) \X S -> S]
  PROVE  \E g \in [0..n -> S] : GoesBy(g, e, n, step)
<1> DEFINE Defined(m) ==
             \E g \in [0..m -> S] : g[0] = e /\ \A i \in 1..m : g[i] = step[<<i, g[i - 1]>>]
           T == { m \in 0..n : Defined(m) }
<1>1. 0 \in T
  <2>1. [i \in 0..0 |-> e] \in [0..0 -> S]
    OBVIOUS
  <2>2. Defined(0)
    <3> DEFINE g == [i \in 0..0 |-> e]
    <3>1. g[0] = e /\ \A i \in 1..0 : g[i] = step[<<i, g[i - 1]>>]
      OBVIOUS
    <3>2. QED BY <2>1, <3>1
  <2>3. QED BY <2>2
<1>2. ASSUME NEW m \in 1..n, m - 1 \in T PROVE m \in T
  <2>1. PICK g \in [0..(m - 1) -> S] :
          g[0] = e /\ \A i \in 1..(m - 1) : g[i] = step[<<i, g[i - 1]>>]
    BY <1>2
  <2> DEFINE h == [i \in 0..m |-> IF i = m THEN step[<<m, g[m - 1]>>] ELSE g[i]]
  <2>2. g[m - 1] \in S /\ step[<<m, g[m - 1]>>] \in S
    OBVIOUS
  <2>3. h \in [0..m -> S]
    BY <2>2
  <2>4. ASSUME NEW i \in 1..m PROVE h[i] = step[<<i, h[i - 1]>>]
    <3>1. i - 1 \in 0..(m - 1) /\ h[i - 1] = g[i - 1]
      OBVIOUS
    <3>2. CASE i = m
      <4>1. h[m] = step[<<m, g[m - 1]>>]
        OBVIOUS
      <4> HIDE DEF h
      <4>2. QED BY <3>1, <3>2, <4>1
    <3>3. CASE i # m
      <4>1. i \in 1..(m - 1)
        BY <3>3
      <4>2. QED BY <2>1, <3>1, <3>3, <4>1
    <3>4. QED BY <3>2, <3>3
  <2>5. h[0] = e
    BY <2>1
  <2> HIDE DEF h
  <2>6. QED BY <2>3, <2>4, <2>5
<1> HIDE DEF T
<1>3. T = 0..n
  BY <1>1, <1>2, ReachesAll DEF T
<1>4. QED BY <1>3 DEF T, GoesBy

LEMMA SeqDomain ==
  ASSUME NEW s, IsSeq(s)
  PROVE  Len(s) \in Nat /\ DOMAIN s = 1..Len(s)
  BY DEF IsSeq

LEMMA EmptyIsSeq == IsSeq(<<>>)
  BY DEF IsSeq

(* A function on 1..n is a sequence of its values. *)
LEMMA FunctionIsSeq ==
  ASSUME NEW n \in Nat, NEW f, f = [i \in 1..n |-> f[i]]
  PROVE  IsSeq(f) /\ Len(f) = n /\ DOMAIN f = 1..n
<1>1. \A i \in 1..n : f[i] \in Range(f)
  BY DEF Range
<1>2. f \in [1..n -> Range(f)]
  BY <1>1
<1>3. f \in Seq(Range(f))
  BY <1>2
<1>4. QED BY <1>2, <1>3 DEF IsSeq

LEMMA FunctionIsIn ==
  ASSUME NEW S, NEW n \in Nat, NEW f \in [1..n -> S]
  PROVE  f \in Seq(S) /\ Len(f) = n
  OBVIOUS

LEMMA ConcatIsSeq ==
  ASSUME NEW s, NEW t, IsSeq(s), IsSeq(t)
  PROVE  /\ IsSeq(s \o t)
         /\ Len(s \o t) = Len(s) + Len(t)
         /\ DOMAIN (s \o t) = 1..(Len(s) + Len(t))
         /\ \A i \in 1..Len(s) : (s \o t)[i] = s[i]
         /\ \A i \in 1..Len(t) : (s \o t)[Len(s) + i] = t[i]
<1> DEFINE U == Range(s) \cup Range(t)
<1>1. s \in Seq(U) /\ t \in Seq(U)
  BY DEF IsSeq
<1>2. s \o t \in Seq(U)
  BY <1>1
<1>3. /\ Len(s) \in Nat /\ Len(t) \in Nat
      /\ Len(s \o t) = Len(s) + Len(t)
      /\ DOMAIN (s \o t) = 1..(Len(s) + Len(t))
      /\ \A i \in 1..Len(s) : (s \o t)[i] = s[i]
      /\ \A i \in 1..Len(t) : (s \o t)[Len(s) + i] = t[i]
  BY <1>1, <1>2
<1>4. (s \o t) = [i \in 1..(Len(s) + Len(t)) |-> (s \o t)[i]]
  <2>1. s \o t = [i \in 1..Len(s \o t) |-> (s \o t)[i]]
    BY <1>2, LenProperties
  <2>2. QED BY <2>1, <1>3
<1>5. IsSeq(s \o t)
  BY <1>3, <1>4, FunctionIsSeq
<1>6. QED BY <1>3, <1>5

(* Every element of a concatenation is one of a part. *)
LEMMA ConcatElements ==
  ASSUME NEW s, NEW t, IsSeq(s), IsSeq(t), NEW k \in DOMAIN (s \o t)
  PROVE  \/ k \in DOMAIN s /\ (s \o t)[k] = s[k]
         \/ k - Len(s) \in DOMAIN t /\ (s \o t)[k] = t[k - Len(s)]
<1>1. Len(s) \in Nat /\ Len(t) \in Nat /\ DOMAIN s = 1..Len(s) /\ DOMAIN t = 1..Len(t)
  BY SeqDomain
<1>2. k \in 1..(Len(s) + Len(t))
  BY ConcatIsSeq
<1>3. CASE k <= Len(s)
  BY <1>1, <1>2, <1>3, ConcatIsSeq
<1>4. CASE k > Len(s)
  <2>1. k - Len(s) \in 1..Len(t) /\ k = Len(s) + (k - Len(s))
    BY <1>1, <1>2, <1>4
  <2>2. QED BY <1>1, <2>1, ConcatIsSeq
<1>5. QED BY <1>1, <1>2, <1>3, <1>4

LEMMA EveryPartIsThere ==
  ASSUME NEW s, NEW t, IsSeq(s), IsSeq(t)
  PROVE  /\ \A i \in DOMAIN s : i \in DOMAIN (s \o t) /\ (s \o t)[i] = s[i]
         /\ \A i \in DOMAIN t : Len(s) + i \in DOMAIN (s \o t) /\ (s \o t)[Len(s) + i] = t[i]
  BY SeqDomain, ConcatIsSeq

(* Two elements count as two. *)
LEMMA CountTwo ==
  ASSUME NEW S, IsFiniteSet(S), NEW i \in S, NEW j \in S, i # j
  PROVE  Cardinality(S) \in Nat /\ Cardinality(S) >= 2
<1>1. IsFiniteSet({i}) /\ Cardinality({i}) = 1 /\ IsFiniteSet({j}) /\ Cardinality({j}) = 1
  BY FS_Singleton
<1>2. {i} \cap {j} = {} /\ {i} \cup {j} \subseteq S
  OBVIOUS
<1>3. Cardinality({i} \cup {j}) = 2
  BY <1>1, <1>2, FS_Union, FS_EmptySet
<1>4. QED BY <1>2, <1>3, FS_Subset, FS_CardinalityType

LEMMA CountNone ==
  ASSUME NEW S, IsFiniteSet(S)
  PROVE  Cardinality(S) \in Nat /\ (Cardinality(S) = 0 <=> S = {})
  BY FS_CardinalityType, FS_EmptySet

(* What a function gives on a finite set is finite. *)
LEMMA ImageIsFinite ==
  ASSUME NEW S, IsFiniteSet(S), NEW f, DOMAIN f = S
  PROVE  IsFiniteSet({ f[x] : x \in S })
<1> DEFINE g == [x \in S |-> f[x]]
           T == { f[x] : x \in S }
<1>1. g \in Surjection(S, T)
  BY DEF Surjection
<1>2. QED BY <1>1, FS_Surjection

-----------------------------------------------------------------------------
LEMMA UploadsAreSequences ==
  ASSUME uploads \in Uploads
  PROVE  /\ Len(uploads) \in Nat /\ DOMAIN uploads = 1..Len(uploads)
         /\ \A i, j \in DOMAIN uploads : uploads[i].id = uploads[j].id => uploads[i] = uploads[j]
  BY UploadsAssumption, SeqDomain DEF IsSeq

(* An id leads back to its upload, whichever of its entries is taken. *)
LEMMA IdsAreOnesOwn ==
  ASSUME uploads \in Uploads, NEW i \in DOMAIN uploads
  PROVE  /\ TypeOfId(uploads[i].id) = uploads[i].type
         /\ FirstOf(uploads[i].id) \in UploadsOf(uploads[i].type)
         /\ uploads[FirstOf(uploads[i].id)].id = uploads[i].id
         /\ i \in UploadsOf(uploads[i].type) => FirstOf(uploads[i].id) = i
<1> DEFINE S == { k \in DOMAIN uploads : uploads[k].id = uploads[i].id }
           first == FirstOf(uploads[i].id)
           last == LastOf(uploads[i].id)
<1>1. S \in SUBSET (0..Len(uploads)) /\ i \in S /\ Len(uploads) \in Nat
  BY UploadsAreSequences
<1>2. (\E m \in S : \A k \in S : m <= k) /\ (\E m \in S : \A k \in S : k <= m)
  BY <1>1, GreatestOf, LeastOf
<1>3. /\ first \in DOMAIN uploads /\ uploads[first].id = uploads[i].id
      /\ \A k \in DOMAIN uploads : uploads[k].id = uploads[i].id => first <= k
  <2>1. \E m \in DOMAIN uploads :
          /\ uploads[m].id = uploads[i].id
          /\ \A k \in DOMAIN uploads : uploads[k].id = uploads[i].id => m <= k
    BY <1>2
  <2>2. QED BY <2>1 DEF FirstOf
<1>4. last \in DOMAIN uploads /\ uploads[last].id = uploads[i].id
  <2>1. \E m \in DOMAIN uploads :
          /\ uploads[m].id = uploads[i].id
          /\ \A k \in DOMAIN uploads : uploads[k].id = uploads[i].id => k <= m
    BY <1>2
  <2>2. QED BY <2>1 DEF LastOf
<1> HIDE DEF first, last, S
<1>5. uploads[first] = uploads[i] /\ uploads[last] = uploads[i]
  BY <1>3, <1>4, UploadsAreSequences
<1>6. TypeOfId(uploads[i].id) = uploads[i].type
  BY <1>5 DEF TypeOfId, last
<1>7. first \in UploadsOf(uploads[i].type)
  BY <1>3, <1>5 DEF UploadsOf
<1>8. ASSUME i \in UploadsOf(uploads[i].type) PROVE first = i
  <2>1. i <= first /\ first <= i
    BY <1>3, <1>8 DEF UploadsOf
  <2>2. QED BY <1>3, <2>1, UploadsAreSequences
<1>9. QED BY <1>3, <1>6, <1>7, <1>8 DEF first

LEMMA LastIsUploaded ==
  ASSUME uploads \in Uploads, NEW k \in DOMAIN uploads, NEW t, t = uploads[k].type
  PROVE  /\ LastUpload(t) \in UploadsOf(t)
         /\ \A j \in UploadsOf(t) : j <= LastUpload(t)
<1>1. UploadsOf(t) \in SUBSET (0..Len(uploads)) /\ Len(uploads) \in Nat
  BY UploadsAreSequences DEF UploadsOf
<1>2. UploadsOf(t) # {}
  BY IdsAreOnesOwn
<1>3. \E m \in UploadsOf(t) : \A i \in UploadsOf(t) : i <= m
  BY <1>1, <1>2, GreatestOf
<1>4. QED BY <1>3 DEF LastUpload

(* What is handed on when no document was given up. *)
LEMMA ByTypeIsWhole ==
  ASSUME ExtractInv, index > Len(uploads), passedAll
  PROVE  /\ DOMAIN ByType = { uploads[i].type : i \in DOMAIN uploads }
         /\ \A t \in DOMAIN ByType :
              /\ LastUpload(t) \in DOMAIN uploads
              /\ uploads[LastUpload(t)].type = t
              /\ ByType[t] = byId[uploads[LastUpload(t)].id]
<1>1. /\ uploads \in Uploads /\ Len(uploads) \in Nat /\ DOMAIN uploads = 1..Len(uploads)
      /\ index - 1 = Len(uploads)
  BY UploadsAreSequences DEF ExtractInv
<1>2. DOMAIN byId = { uploads[i].id : i \in DOMAIN uploads }
  BY <1>1 DEF ExtractInv, Extracted
<1>3. { TypeOfId(id) : id \in DOMAIN byId } = { uploads[i].type : i \in DOMAIN uploads }
  BY <1>1, <1>2, IdsAreOnesOwn
<1>4. DOMAIN ByType = { uploads[i].type : i \in DOMAIN uploads }
  BY <1>3 DEF ByType
<1>5. ASSUME NEW t \in DOMAIN ByType
      PROVE  /\ LastUpload(t) \in DOMAIN uploads
             /\ uploads[LastUpload(t)].type = t
             /\ ByType[t] = byId[uploads[LastUpload(t)].id]
  <2> DEFINE l == LastUpload(t)
             Latest(id) == /\ TypeOfId(id) = t
                           /\ \A other \in DOMAIN byId :
                                TypeOfId(other) = t => FirstOf(other) <= FirstOf(id)
  <2>1. PICK k \in DOMAIN uploads : t = uploads[k].type
    BY <1>4
  <2>2. l \in UploadsOf(t) /\ \A j \in UploadsOf(t) : j <= l
    BY <1>1, <2>1, LastIsUploaded
  <2> HIDE DEF l
  <2>3. l \in DOMAIN uploads /\ uploads[l].type = t /\ FirstOf(uploads[l].id) = l
    <3>1. l \in DOMAIN uploads /\ uploads[l].type = t
      BY <2>2 DEF UploadsOf
    <3>2. QED BY <1>1, <2>2, <3>1, IdsAreOnesOwn
  <2>4. ASSUME NEW id \in DOMAIN byId, TypeOfId(id) = t
        PROVE  FirstOf(id) \in UploadsOf(t) /\ uploads[FirstOf(id)].id = id
    <3>1. PICK i \in DOMAIN uploads : id = uploads[i].id
      BY <1>2
    <3>2. QED BY <1>1, <2>4, <3>1, IdsAreOnesOwn
  <2>5. uploads[l].id \in DOMAIN byId /\ Latest(uploads[l].id)
    <3>1. uploads[l].id \in DOMAIN byId /\ TypeOfId(uploads[l].id) = t
      BY <1>1, <1>2, <2>3, IdsAreOnesOwn
    <3>2. QED BY <2>2, <2>3, <2>4, <3>1
  <2>6. ASSUME NEW id \in DOMAIN byId, Latest(id) PROVE id = uploads[l].id
    <3>1. FirstOf(id) \in DOMAIN uploads /\ FirstOf(id) <= l /\ uploads[FirstOf(id)].id = id
      BY <2>2, <2>4, <2>6 DEF UploadsOf
    <3>2. l <= FirstOf(id)
      BY <2>3, <2>5, <2>6
    <3>3. FirstOf(id) = l
      BY <1>1, <2>3, <3>1, <3>2
    <3>4. QED BY <3>1, <3>3
  <2> HIDE DEF Latest
  <2>7. (CHOOSE id \in DOMAIN byId : Latest(id)) = uploads[l].id
    BY <2>5, <2>6
  <2>8. ByType[t] = byId[uploads[l].id]
    BY <1>3, <1>4, <2>7 DEF ByType, Latest
  <2>9. QED BY <2>3, <2>8 DEF l
<1>6. QED BY <1>4, <1>5

(* Every document handed on was read and passed Gate 1. *)
LEMMA DataIsRead ==
  ASSUME ExtractInv, DataInv, NEW t \in DOMAIN data
  PROVE  data[t] \in Readings /\ data[t].type = t /\ DocumentIntegrity(data[t])
<1>1. index > Len(uploads) /\ passedAll /\ data = ByType
  BY DEF DataInv, NoData
<1>2. index - 1 = Len(uploads) /\ DOMAIN uploads = 1..Len(uploads)
  BY <1>1, UploadsAreSequences DEF ExtractInv
<1>3. LastUpload(t) \in 1..(index - 1) /\ uploads[LastUpload(t)].type = t
        /\ data[t] = byId[uploads[LastUpload(t)].id]
  BY <1>1, <1>2, ByTypeIsWhole
<1>4. QED BY <1>1, <1>3 DEF ExtractInv, Extracted

LEMMA DataIsFinite ==
  ASSUME ExtractInv, DataInv
  PROVE  IsFiniteSet(DOMAIN data)
<1>1. CASE data = NoData
  BY <1>1, FS_EmptySet DEF NoData
<1>2. CASE data # NoData
  <2> DEFINE f == [i \in DOMAIN uploads |-> uploads[i].type]
  <2>1. DOMAIN data = { f[i] : i \in DOMAIN uploads }
    BY <1>2, ByTypeIsWhole DEF DataInv
  <2>2. IsFiniteSet(DOMAIN uploads)
    BY UploadsAreSequences, FS_Interval DEF ExtractInv
  <2>3. DOMAIN f = DOMAIN uploads
    OBVIOUS
  <2> HIDE DEF f
  <2>4. IsFiniteSet({ f[i] : i \in DOMAIN uploads })
    BY <2>2, <2>3, ImageIsFinite
  <2>5. QED BY <2>1, <2>4
<1>3. QED BY <1>1, <1>2

(* What was extracted so far is enough for the property.                   *)
LEMMA AllOrNothingHolds == ExtractInv /\ DataInv => AllOrNothing
<1> SUFFICES ASSUME ExtractInv, DataInv PROVE AllOrNothing
  OBVIOUS
<1>1. CASE data = NoData
  BY <1>1 DEF AllOrNothing, NoData
<1>2. CASE data # NoData
  BY <1>2, ByTypeIsWhole DEF AllOrNothing, DataInv
<1>3. QED BY <1>1, <1>2

-----------------------------------------------------------------------------
(* Extraction.                                                             *)
LEMMA ExtractionKeeps == ExtractInv /\ DataInv /\ [Next]_vars => ExtractInv' /\ DataInv'
<1> SUFFICES ASSUME ExtractInv, DataInv, [Next]_vars PROVE ExtractInv' /\ DataInv'
  OBVIOUS
<1>1. Len(uploads) \in Nat /\ DOMAIN uploads = 1..Len(uploads) /\ index \in Nat
      /\ \A i, j \in DOMAIN uploads : uploads[i].id = uploads[j].id => uploads[i] = uploads[j]
  BY UploadsAreSequences DEF ExtractInv
<1>2. CASE ReadDocument
  <2>1. PICK d \in Readings : d.type = Current.type /\ DocumentIntegrity(d)
                              /\ byId' = Put(byId, Current.id, d)
    BY <1>2 DEF ReadDocument
  <2>2. /\ pc = "extract" /\ index \in DOMAIN uploads /\ index' = index + 1
        /\ UNCHANGED <<pc, uploads, passedAll, data>>
    BY <1>1, <1>2 DEF ReadDocument, ExtractInv
  <2>3. /\ DOMAIN byId' = DOMAIN byId \cup {uploads[index].id}
        /\ byId'[uploads[index].id] = d
        /\ \A id \in DOMAIN byId : id # uploads[index].id => byId'[id] = byId[id]
        /\ byId' = [id \in DOMAIN byId' |-> byId'[id]]
    BY <2>1 DEF Put, Current
  <2>4. \A i \in 1..(index - 1) :
          i \in DOMAIN uploads /\ (uploads[i].id = uploads[index].id => uploads[i] = uploads[index])
    BY <1>1, <2>2
  <2>5. Extracted(index - 1)'
    <3>1. ASSUME NEW id \in DOMAIN byId' PROVE \E i \in 1..index : uploads'[i].id = id
      BY <1>1, <2>2, <2>3 DEF ExtractInv, Extracted
    <3>2. ASSUME NEW i \in 1..index, uploads'[i].id \in DOMAIN byId'
          PROVE  /\ byId'[uploads'[i].id] \in Readings
                 /\ byId'[uploads'[i].id].type = uploads'[i].type
                 /\ DocumentIntegrity(byId'[uploads'[i].id])
      <4>1. CASE uploads[i].id = uploads[index].id
        <5>1. uploads[i] = uploads[index]
          BY <1>1, <2>2, <2>4, <4>1
        <5>2. QED BY <2>1, <2>2, <2>3, <5>1 DEF Current
      <4>2. CASE uploads[i].id # uploads[index].id
        <5>1. i \in 1..(index - 1)
          BY <1>1, <4>2
        <5>2. uploads[i].id \in DOMAIN byId /\ byId'[uploads[i].id] = byId[uploads[i].id]
          BY <2>2, <2>3, <3>2, <4>2
        <5>3. QED BY <2>2, <5>1, <5>2 DEF ExtractInv, Extracted
      <4>3. QED BY <4>1, <4>2
    <3>3. ASSUME passedAll', NEW i \in 1..index PROVE uploads'[i].id \in DOMAIN byId'
      BY <1>1, <2>2, <2>3, <3>3 DEF ExtractInv, Extracted
    <3>4. index' - 1 = index
      BY <1>1, <2>2
    <3>5. QED BY <3>4, <3>1, <3>2, <3>3 DEF Extracted
  <2>6. QED BY <1>1, <2>2, <2>3, <2>5 DEF ExtractInv, DataInv, Extracted
<1>3. CASE AttemptFails
  <2>1. /\ pc = "extract" /\ index <= Len(uploads)
        /\ UNCHANGED <<pc, uploads, byId, data>>
        /\ \/ UNCHANGED <<index, passedAll>>
           \/ index' = index + 1 /\ passedAll' = FALSE
    BY <1>3 DEF AttemptFails
  <2>2. CASE UNCHANGED <<index, passedAll>>
    BY <1>1, <2>1, <2>2 DEF ExtractInv, Extracted, DataInv
  <2>3. CASE index' = index + 1 /\ passedAll' = FALSE
    <3>1. ASSUME NEW i \in 1..index, uploads[i].id \in DOMAIN byId
          PROVE  /\ byId[uploads[i].id] \in Readings
                 /\ byId[uploads[i].id].type = uploads[i].type
                 /\ DocumentIntegrity(byId[uploads[i].id])
      <4>1. PICK j \in 1..(index - 1) : uploads[j].id = uploads[i].id
        BY <3>1 DEF ExtractInv, Extracted
      <4>2. i \in DOMAIN uploads /\ j \in DOMAIN uploads
        BY <1>1, <2>1
      <4>3. uploads[j] = uploads[i]
        BY <1>1, <4>1, <4>2
      <4>4. QED BY <3>1, <4>1, <4>3 DEF ExtractInv, Extracted
    <3>2. index \in 1..Len(uploads) /\ index' - 1 = index
      BY <1>1, <2>1, <2>3 DEF ExtractInv
    <3>3. \A id \in DOMAIN byId : \E i \in 1..index : uploads[i].id = id
      BY <1>1 DEF ExtractInv, Extracted
    <3>4. Extracted(index - 1)'
      BY <2>1, <2>3, <3>1, <3>2, <3>3 DEF Extracted
    <3>5. QED BY <1>1, <2>1, <2>3, <3>2, <3>4 DEF ExtractInv, DataInv
  <2>4. QED BY <2>1, <2>2, <2>3
<1>4. CASE ExtractionUnavailable \/ ExtractionFails
  BY <1>4 DEF ExtractionUnavailable, ExtractionFails, Unprocessed, extraction, ExtractInv,
     Extracted, DataInv
<1>5. CASE ExtractionPasses
  <2>1. /\ pc' = "attempt_validation" /\ index > Len(uploads) /\ passedAll /\ data' = ByType
        /\ UNCHANGED <<uploads, index, byId, passedAll>>
    BY <1>5 DEF ExtractionPasses, StartValidation, extraction
  <2>2. UNCHANGED <<ByType>>
    BY <2>1 DEF ByType, TypeOfId, FirstOf, LastOf
  <2>3. QED BY <2>1, <2>2 DEF ExtractInv, Extracted, DataInv
<1>6. ASSUME pc' # "extract", UNCHANGED <<uploads, index, byId, passedAll, data>>
      PROVE  ExtractInv' /\ DataInv'
  <2>1. UNCHANGED <<ByType>>
    BY <1>6 DEF ByType, TypeOfId, FirstOf, LastOf
  <2>2. QED BY <1>6, <2>1 DEF ExtractInv, Extracted, DataInv
<1>7. CASE Validate \/ ValidationRetries \/ ValidationFails
  <2>1. pc' # "extract" /\ UNCHANGED <<uploads, index, byId, passedAll, data>>
    BY <1>7 DEF Validate, ValidationRetries, ValidationFails, StartValidation, extraction,
       AttemptValidation, EvaluateValidation, CritiqueValidation, GenerateClarification,
       FinalizeValidation, Gate2Completeness
  <2>2. QED BY <1>6, <2>1
<1>8. CASE UNCHANGED vars
  <2>1. UNCHANGED <<pc, uploads, index, byId, passedAll, data>>
    BY <1>8 DEF vars, extraction
  <2>2. UNCHANGED <<ByType>>
    BY <2>1 DEF ByType, TypeOfId, FirstOf, LastOf
  <2>3. QED BY <2>1, <2>2 DEF ExtractInv, Extracted, DataInv
<1>9. QED BY <1>2, <1>3, <1>4, <1>5, <1>7, <1>8 DEF Next, Extract

-----------------------------------------------------------------------------
(* The model's report.                                                     *)
LEMMA PairsAreFinite ==
  ASSUME NEW S, IsFiniteSet(S), NEW P \in SUBSET Pairs(S)
  PROVE  IsFiniteSet(P)
<1>1. P \in SUBSET (SUBSET S)
  BY DEF Pairs
<1>2. QED BY <1>1, FS_SUBSET, FS_Subset

LEMMA FindingsAreFinite ==
  ASSUME IsFiniteSet(DOMAIN data)
  PROVE  IsFiniteSet(CrossDocumentCompare(data))
<1>1. IsFiniteSet(IdentityMatch(data))
  BY FS_Singleton, FS_EmptySet DEF IdentityMatch
<1>2. IsFiniteSet(NameConsistency(data))
  <2> DEFINE P == NamesDiffer(data, DOMAIN data)
             f == [p \in P |-> Discrepancy("name_mismatch", p, PairSimilarity(data, p))]
  <2>1. Named(data, DOMAIN data) \in SUBSET DOMAIN data
    BY DEF Named, Among
  <2>2. P \in SUBSET Pairs(Named(data, DOMAIN data))
    BY DEF NamesDiffer
  <2>3. IsFiniteSet(P)
    BY <2>1, <2>2, FS_Subset, PairsAreFinite
  <2>4. NameConsistency(data) = { f[p] : p \in P } /\ DOMAIN f = P
    BY DEF NameConsistency
  <2> HIDE DEF f, P
  <2>5. QED BY <2>3, <2>4, ImageIsFinite
<1>3. IsFiniteSet(IncomeConsistency(data))
  BY FS_Singleton, FS_EmptySet DEF IncomeConsistency
<1>4. IsFiniteSet(AddressConsistency(data))
  <2> DEFINE A == { t \in DOMAIN data : data[t].address # Absent }
             P == { q \in Pairs(A) : \E t, u \in q : data[t].address # data[u].address }
             f == [p \in P |-> Discrepancy("address_mismatch", p, 0)]
  <2>1. A \in SUBSET DOMAIN data /\ P \in SUBSET Pairs(A)
    OBVIOUS
  <2>2. AddressConsistency(data) = { f[p] : p \in P } /\ DOMAIN f = P
    BY DEF AddressConsistency
  <2> HIDE DEF f, P, A
  <2>3. IsFiniteSet(P)
    BY <2>1, FS_Subset, PairsAreFinite
  <2>4. QED BY <2>2, <2>3, ImageIsFinite
<1>5. QED BY <1>1, <1>2, <1>3, <1>4, FS_Union DEF CrossDocumentCompare

LEMMA ReportIsSeq ==
  ASSUME IsFiniteSet(DOMAIN data), NEW answer
  PROVE  IsSeq(Report(answer)) /\ \A i \in DOMAIN Report(answer) : IsEntry(Report(answer)[i])
<1> DEFINE S == CrossDocumentCompare(data)
           found == SetToSeq(S)
<1>1. Cardinality(S) \in Nat /\ ExistsBijection(1..Cardinality(S), S)
  BY FindingsAreFinite, FS_CardinalityType
<1>2. \E f \in [1..Cardinality(S) -> S] : IsInjective(f)
  BY <1>1 DEF ExistsBijection, Bijection, Injection
<1>3. DOMAIN found = 1..Cardinality(S)
  BY <1>2 DEF SetToSeq
<1> HIDE DEF S, found
<1>4. Report(answer) = [i \in DOMAIN found |-> Entry(found[i], answer)]
  BY DEF Report, S, found
<1>5. \A i \in DOMAIN Report(answer) : Report(answer)[i] = Entry(found[i], answer)
  BY <1>4
<1>6. Report(answer) = [i \in 1..Cardinality(S) |-> Report(answer)[i]]
  BY <1>3, <1>4
<1>7. IsSeq(Report(answer))
  BY <1>1, <1>6, FunctionIsSeq
<1>8. ASSUME NEW d PROVE IsEntry(Entry(d, answer))
  BY DEF Entry, IsEntry
<1>9. QED BY <1>5, <1>7, <1>8

-----------------------------------------------------------------------------
(* What a reducer that appends makes of a node that returns all.           *)
LEMMA Doubled ==
  ASSUME NEW s, IsSeq(s)
  PROVE  /\ IsSeq(s \o s)
         /\ \A k \in DOMAIN (s \o s) : \E i \in DOMAIN s : (s \o s)[k] = s[i]
         /\ \A i \in DOMAIN s : \E k \in DOMAIN (s \o s) : (s \o s)[k] = s[i]
         /\ \A k \in DOMAIN (s \o s) : \E j \in DOMAIN (s \o s) :
              j # k /\ (s \o s)[j] = (s \o s)[k]
<1>1. Len(s) \in Nat /\ DOMAIN s = 1..Len(s)
  BY SeqDomain
<1>2. /\ IsSeq(s \o s) /\ DOMAIN (s \o s) = 1..(Len(s) + Len(s))
      /\ \A i \in 1..Len(s) : (s \o s)[i] = s[i]
      /\ \A i \in 1..Len(s) : (s \o s)[Len(s) + i] = s[i]
  BY ConcatIsSeq
<1>3. \A k \in DOMAIN (s \o s) : \E i \in DOMAIN s : (s \o s)[k] = s[i]
  BY ConcatElements
<1>4. \A i \in DOMAIN s : i \in DOMAIN (s \o s) /\ Len(s) + i \in DOMAIN (s \o s)
  BY <1>1, <1>2
<1>5. ASSUME NEW k \in DOMAIN (s \o s)
      PROVE  \E j \in DOMAIN (s \o s) : j # k /\ (s \o s)[j] = (s \o s)[k]
  <2>1. k \in 1..(Len(s) + Len(s))
    BY <1>2
  <2>2. CASE k <= Len(s)
    <3>1. k \in DOMAIN s /\ Len(s) + k # k
      BY <1>1, <2>1, <2>2
    <3>2. QED BY <1>1, <1>2, <1>4, <3>1
  <2>3. CASE k > Len(s)
    <3>1. k - Len(s) \in 1..Len(s) /\ k - Len(s) # k /\ k = Len(s) + (k - Len(s))
      BY <1>1, <2>1, <2>3
    <3>2. (s \o s)[k] = s[k - Len(s)] /\ (s \o s)[k - Len(s)] = s[k - Len(s)]
      BY <1>2, <3>1
    <3>3. QED BY <1>1, <1>4, <3>1, <3>2
  <2>4. QED BY <1>1, <2>1, <2>2, <2>3
<1>6. QED BY <1>1, <1>2, <1>3, <1>4, <1>5

LEMMA ClassifiedKeeps ==
  ASSUME NEW e, IsEntry(e)
  PROVE  IsEntry(Classified(e))
  BY DEF Classified, IsEntry

LEMMA AskedKeeps ==
  ASSUME NEW e, IsEntry(e)
  PROVE  /\ IsEntry(Asked(e))
         /\ IsCritical(Asked(e)) <=> IsCritical(e)
         /\ IsUnresolved(Asked(e)) <=> IsUnresolved(e)
         /\ IsUnresolvedReal(Asked(e)) =>
              /\ Asked(e).question # Absent
              /\ Asked(e).question.template \in {TypeKey(Asked(e)), "default"}
<1> DEFINE q == ClarificationQuestion(TypeKey(e))
           a == [e EXCEPT !.question = q]
<1>1. /\ a.type = e.type /\ a.key = e.key /\ a.class = e.class /\ a.status = e.status
      /\ a.question = q /\ IsEntry(a)
  BY DEF IsEntry
<1>2. TypeKey(a) = TypeKey(e) /\ KindKey(a) = KindKey(e)
  BY <1>1 DEF TypeKey, KindKey
<1>3. /\ q # Absent
      /\ q.template \in {TypeKey(e), "default"}
  <2>1. q \in [template : {"name_mismatch", "income_mismatch", "identity_mismatch",
                           "address_mismatch", "default"},
               priority : {"critical", "high", "medium", "low"}]
    BY DEF ClarificationQuestion
  <2>2. q # Absent
    BY <2>1, AbsentAssumption
  <2>3. QED BY <2>2 DEF ClarificationQuestion
<1> HIDE DEF q, a
<1>4. Asked(e) = IF IsUnresolvedReal(e) THEN a ELSE e
  BY DEF Asked, a, q
<1>5. QED BY <1>1, <1>2, <1>3, <1>4 DEF IsCritical, IsUnresolved, IsUnresolvedReal

-----------------------------------------------------------------------------
(* The list: sequences of entries, with the application's own among them.  *)
LEMMA ConcatOfEntries ==
  ASSUME NEW s, NEW t, IsSeq(s), IsSeq(t),
         \A i \in DOMAIN s : IsEntry(s[i]), \A i \in DOMAIN t : IsEntry(t[i])
  PROVE  IsSeq(s \o t) /\ \A k \in DOMAIN (s \o t) : IsEntry((s \o t)[k])
<1>1. ASSUME NEW k \in DOMAIN (s \o t) PROVE IsEntry((s \o t)[k])
  BY ConcatElements
<1>2. QED BY <1>1, ConcatIsSeq

LEMMA StartKeepsLists ==
  ASSUME ListInv, NEW thread, thread \in {<<>>, list, prior}, StartValidation(thread),
         UNCHANGED prior
  PROVE  ListInv' /\ SharedInv' /\ TwiceInv'
<1>1. IsSeq(thread) /\ \A i \in DOMAIN thread : IsEntry(thread[i])
  BY EmptyIsSeq DEF ListInv
<1>2. list' = thread \o prior /\ pc' = "attempt_validation"
  BY DEF StartValidation
<1>3. IsSeq(list') /\ \A k \in DOMAIN list' : IsEntry(list'[k])
  BY <1>1, <1>2, ConcatOfEntries DEF ListInv
<1>4. ASSUME NEW i \in DOMAIN prior PROVE \E j \in DOMAIN list' : list'[j] = prior[i]
  <2>1. Len(thread) + i \in DOMAIN (thread \o prior) /\ (thread \o prior)[Len(thread) + i] = prior[i]
    BY <1>1, EveryPartIsThere DEF ListInv
  <2>2. QED BY <1>2, <2>1
<1>5. QED BY <1>2, <1>3, <1>4 DEF ListInv, SharedInv, TwiceInv

(* A node that changes every entry in place and returns them all.          *)
LEMMA ReturningAllKeepsLists ==
  ASSUME ListInv, SharedInv, pc \in ValidationNodes,
         NEW s, s = [i \in DOMAIN list |-> s[i]], list' = s \o s,
         prior' = [i \in DOMAIN prior |-> prior'[i]],
         \A i \in DOMAIN list : IsEntry(s[i]),
         \A i \in DOMAIN prior : IsEntry(prior'[i]),
         \A i \in DOMAIN prior, j \in DOMAIN list : list[j] = prior[i] => s[j] = prior'[i]
  PROVE  ListInv' /\ SharedInv' /\ TwiceInv'
<1>1. IsSeq(s) /\ DOMAIN s = DOMAIN list
  BY SeqDomain, FunctionIsSeq DEF ListInv
<1>2. IsSeq(prior') /\ DOMAIN prior' = DOMAIN prior
  BY SeqDomain, FunctionIsSeq DEF ListInv
<1>3. IsSeq(list') /\ \A k \in DOMAIN list' : IsEntry(list'[k])
  BY <1>1, ConcatOfEntries
<1>4. ASSUME NEW i \in DOMAIN prior' PROVE \E k \in DOMAIN list' : list'[k] = prior'[i]
  <2>1. PICK j \in DOMAIN list : list[j] = prior[i]
    BY <1>2 DEF SharedInv
  <2>2. s[j] = prior'[i]
    BY <1>2, <2>1
  <2>3. PICK k \in DOMAIN (s \o s) : (s \o s)[k] = s[j]
    BY <1>1, <2>1, Doubled
  <2>4. QED BY <2>2, <2>3
<1>5. TwiceInv'
  BY <1>1, Doubled DEF TwiceInv
<1>6. QED BY <1>2, <1>3, <1>4, <1>5 DEF ListInv, SharedInv

(* Every step keeps the list of entries, and the application's own in it.  *)
LEMMA ListsKeep ==
  ExtractInv /\ DataInv /\ ListInv /\ SharedInv /\ TwiceInv /\ [Next]_vars
    => ListInv' /\ SharedInv' /\ TwiceInv'
<1> SUFFICES ASSUME ExtractInv, DataInv, ListInv, SharedInv, TwiceInv, [Next]_vars
             PROVE  ListInv' /\ SharedInv' /\ TwiceInv'
  OBVIOUS
<1> USE DEF ValidationNodes
<1>1. ASSUME UNCHANGED <<list, prior>>, pc' # "critique_validation",
             pc' \in ValidationNodes \/ Concluded' => pc \in ValidationNodes \/ Concluded
      PROVE  ListInv' /\ SharedInv' /\ TwiceInv'
  BY <1>1 DEF ListInv, SharedInv, TwiceInv
<1>2. CASE ReadDocument \/ AttemptFails \/ UNCHANGED vars
  BY <1>2 DEF ReadDocument, AttemptFails, vars, validating, ListInv, SharedInv, TwiceInv, Concluded
<1>3. CASE ExtractionUnavailable \/ ExtractionFails
  <2>1. ~Concluded' /\ pc' = "done" /\ UNCHANGED <<list, prior>>
    BY <1>3 DEF ExtractionUnavailable, ExtractionFails, Unprocessed, NoResults, Concluded
  <2>2. QED BY <1>1, <2>1
<1>4. CASE ExtractionPasses
  BY <1>4, StartKeepsLists DEF ExtractionPasses
<1>5. CASE AttemptValidation
  <2>1. pc = "attempt_validation" /\ pc' = "evaluate_validation" /\ UNCHANGED <<data, prior>>
    BY <1>5 DEF AttemptValidation
  <2>2. CASE list' = list
    BY <1>1, <2>1, <2>2 DEF Concluded
  <2>3. ASSUME NEW answer \in Answers, list' = list \o Report(answer)
        PROVE  ListInv' /\ SharedInv' /\ TwiceInv'
    <3>1. IsSeq(Report(answer)) /\ \A i \in DOMAIN Report(answer) : IsEntry(Report(answer)[i])
      BY DataIsFinite, ReportIsSeq
    <3>2. IsSeq(list') /\ \A k \in DOMAIN list' : IsEntry(list'[k])
      BY <2>3, <3>1, ConcatOfEntries DEF ListInv
    <3>3. \A j \in DOMAIN list : \E k \in DOMAIN list' : list'[k] = list[j]
      BY <2>3, <3>1, EveryPartIsThere DEF ListInv
    <3>4. QED BY <2>1, <3>2, <3>3 DEF ListInv, SharedInv, TwiceInv
  <2>4. QED BY <1>5, <2>2, <2>3 DEF AttemptValidation
<1>6. CASE EvaluateValidation
  <2> DEFINE s == [i \in DOMAIN list |-> Classified(list[i])]
  <2>1. /\ pc \in ValidationNodes /\ list' = s \o s
        /\ prior' = [i \in DOMAIN prior |-> Classified(prior[i])]
    BY <1>6 DEF EvaluateValidation
  <2>2. \A i \in DOMAIN list : s[i] = Classified(list[i])
    OBVIOUS
  <2>3. \A i \in DOMAIN prior : prior'[i] = Classified(prior[i])
    BY <2>1
  <2>4. s = [i \in DOMAIN list |-> s[i]] /\ prior' = [i \in DOMAIN prior |-> prior'[i]]
    BY <2>1
  <2> HIDE DEF s
  <2>5. /\ \A i \in DOMAIN list : IsEntry(s[i])
        /\ \A i \in DOMAIN prior : IsEntry(prior'[i])
    BY <2>2, <2>3, ClassifiedKeeps DEF ListInv
  <2>6. \A i \in DOMAIN prior, j \in DOMAIN list : list[j] = prior[i] => s[j] = prior'[i]
    BY <2>2, <2>3
  <2>7. QED BY <2>1, <2>4, <2>5, <2>6, ReturningAllKeepsLists
<1>7. CASE GenerateClarification
  <2> DEFINE s == [i \in DOMAIN list |-> Asked(list[i])]
  <2>1. /\ pc \in ValidationNodes /\ list' = s \o s
        /\ prior' = [i \in DOMAIN prior |-> Asked(prior[i])]
    BY <1>7 DEF GenerateClarification
  <2>2. \A i \in DOMAIN list : s[i] = Asked(list[i])
    OBVIOUS
  <2>3. \A i \in DOMAIN prior : prior'[i] = Asked(prior[i])
    BY <2>1
  <2>4. s = [i \in DOMAIN list |-> s[i]] /\ prior' = [i \in DOMAIN prior |-> prior'[i]]
    BY <2>1
  <2> HIDE DEF s
  <2>5. /\ \A i \in DOMAIN list : IsEntry(s[i])
        /\ \A i \in DOMAIN prior : IsEntry(prior'[i])
    BY <2>2, <2>3, AskedKeeps DEF ListInv
  <2>6. \A i \in DOMAIN prior, j \in DOMAIN list : list[j] = prior[i] => s[j] = prior'[i]
    BY <2>2, <2>3
  <2>7. QED BY <2>1, <2>4, <2>5, <2>6, ReturningAllKeepsLists
<1>8. CASE CritiqueValidation \/ FinalizeValidation \/ Gate2Completeness
  BY <1>1, <1>8 DEF CritiqueValidation, FinalizeValidation, Gate2Completeness
<1>9. CASE ValidationRetries
  BY <1>9, StartKeepsLists DEF ValidationRetries
<1>10. CASE ValidationFails
  <2>1. ~Concluded' /\ pc' = "done" /\ UNCHANGED <<list, prior>>
    BY <1>10 DEF ValidationFails, NoResults, Concluded
  <2>2. QED BY <1>1, <2>1
<1>11. QED
  BY <1>2, <1>3, <1>4, <1>5, <1>6, <1>7, <1>8, <1>9, <1>10 DEF Next, Extract, Validate

-----------------------------------------------------------------------------
(* The judgement.                                                          *)
LEMMA ResultsKeep == ResultsInv /\ [Next]_vars => ResultsInv'
<1> SUFFICES ASSUME ResultsInv, [Next]_vars PROVE ResultsInv'
  OBVIOUS
<1>1. CASE AttemptValidation
  <2>1. pc' # "extract"
    BY <1>1 DEF AttemptValidation
  <2>2. CASE results' = results
    BY <2>1, <2>2 DEF ResultsInv
  <2>3. ASSUME NEW answer \in Answers, answer.kind = "json", NEW base \in Bases(answer),
               results' = [results EXCEPT !.base = base, !.types = answer.types \cap DOMAIN data]
        PROVE  ResultsInv'
    <3>1. base \in 0..100
      BY <2>3, AnswersAssumption DEF Bases
    <3>2. QED BY <2>1, <2>3, <3>1 DEF ResultsInv
  <2>4. QED BY <1>1, <2>2, <2>3 DEF AttemptValidation
<1>2. CASE CritiqueValidation
  BY <1>2 DEF CritiqueValidation, ResultsInv
<1>3. CASE ExtractionUnavailable \/ ExtractionFails \/ ValidationFails
  <2>1. /\ pc' = "done"
        /\ \/ results' = [NoResults EXCEPT !.status = "unprocessed", !.confidence = 0]
           \/ results' = [NoResults EXCEPT !.status = "failed", !.confidence = 0]
    BY <1>3 DEF ExtractionUnavailable, ExtractionFails, Unprocessed, ValidationFails
  <2>2. /\ results' = [status |-> results'.status, confidence |-> 0, recommendation |-> Absent,
                       base |-> 0, types |-> {}]
        /\ pc' # "extract"
    BY <2>1 DEF NoResults
  <2>3. QED BY <2>2 DEF ResultsInv
<1>4. CASE ExtractionPasses \/ ValidationRetries
  BY <1>4 DEF ExtractionPasses, ValidationRetries, StartValidation, NoResults, ResultsInv
<1>5. CASE ReadDocument \/ AttemptFails \/ UNCHANGED vars
  BY <1>5 DEF ReadDocument, AttemptFails, vars, validating, ResultsInv
<1>6. CASE EvaluateValidation \/ GenerateClarification \/ FinalizeValidation \/ Gate2Completeness
  BY <1>6 DEF EvaluateValidation, GenerateClarification, FinalizeValidation, Gate2Completeness,
     ResultsInv
<1>7. QED BY <1>1, <1>2, <1>3, <1>4, <1>5, <1>6 DEF Next, Extract, Validate

LEMMA ListPartsAreFinite ==
  ASSUME ListInv, NEW S \in SUBSET DOMAIN list
  PROVE  IsFiniteSet(S)
  BY SeqDomain, FS_Interval, FS_Subset DEF ListInv

(* The critique: a critical entry, there twice, takes its 30 hundredths,    *)
(* and only a list with nothing unresolved is recommended for decision.    *)
LEMMA CritiqueJudges ==
  ASSUME ListInv, ResultsInv, TwiceInv, CritiqueValidation
  PROVE  JudgedInv' /\ AskedInv' /\ EndInv'
<1> DEFINE unresolved == { i \in DOMAIN list : IsUnresolved(list[i]) }
           critical == { i \in DOMAIN list : IsCritical(list[i]) }
           real == { i \in DOMAIN list : IsUnresolvedReal(list[i]) }
           u == Cardinality(unresolved)
           c == Cardinality(critical)
           confidence == ValidationConfidence(results.base, u, c)
<1>1. Count(IsUnresolved) = u /\ Count(IsCritical) = c /\ Count(IsUnresolvedReal) = Cardinality(real)
  BY DEF Count
<1>2. /\ IsFiniteSet(unresolved) /\ IsFiniteSet(critical) /\ IsFiniteSet(real)
  BY ListPartsAreFinite
<1>3. /\ u \in Nat /\ (u = 0 <=> unresolved = {})
      /\ c \in Nat
      /\ Cardinality(real) \in Nat /\ (Cardinality(real) = 0 <=> real = {})
  BY <1>2, CountNone
<1>4. critical # {} => u >= 2 /\ c >= 2
  <2>1. SUFFICES ASSUME NEW i \in critical PROVE u >= 2 /\ c >= 2
    OBVIOUS
  <2>2. PICK j \in DOMAIN list : j # i /\ list[j] = list[i]
    BY DEF TwiceInv, CritiqueValidation
  <2>3. i \in unresolved /\ j \in unresolved /\ j \in critical
    BY <2>2 DEF IsCritical
  <2>4. QED BY <1>2, <2>2, <2>3, CountTwo
<1>5. /\ results'.status = "validated" /\ results'.confidence = confidence
      /\ results'.recommendation = ValidationRecommendation(confidence, u)
      /\ pc' = IF NextAction(confidence, Cardinality(real)) = "request_clarification"
               THEN "generate_clarification" ELSE "finalize_validation"
      /\ UNCHANGED <<data, prior, list>>
  BY <1>1 DEF CritiqueValidation, ResultsInv
<1> HIDE DEF unresolved, critical, real, u, c
<1>6. results.base \in 0..100
  BY DEF ResultsInv
<1>7. confidence \in 0..100 /\ (critical # {} => confidence <= 70)
  <2>1. confidence = IF results.base - 5 * u - 10 * c < 0 THEN 0
                     ELSE results.base - 5 * u - 10 * c
    BY DEF ValidationConfidence
  <2>2. u \in Nat /\ c \in Nat /\ results.base \in Nat /\ results.base <= 100
    BY <1>3, <1>6
  <2>3. CASE critical = {}
    BY <2>1, <2>2, <2>3
  <2>4. CASE critical # {}
    <3>1. u >= 2 /\ c >= 2
      BY <1>4, <2>4
    <3>2. QED BY <2>1, <2>2, <3>1
  <2>5. QED BY <2>3, <2>4
<1>8. results'.recommendation = "proceed_to_decision" => unresolved = {}
  BY <1>3, <1>5 DEF ValidationRecommendation
<1>9. pc' # "generate_clarification" => real = {}
  BY <1>3, <1>5 DEF NextAction
<1>10. pc' \in {"generate_clarification", "finalize_validation"}
  BY <1>5
<1>11. JudgedInv'
  <2>1. (\E i \in DOMAIN list : IsCritical(list[i])) => results'.confidence <= 70
    BY <1>5, <1>7 DEF critical
  <2>2. results'.recommendation = "proceed_to_decision" =>
          \A i \in DOMAIN list : ~IsUnresolved(list[i])
    BY <1>8 DEF unresolved
  <2>3. QED BY <1>5, <1>7, <1>10, <2>1, <2>2 DEF JudgedInv, Ended
<1>12. AskedInv'
  BY <1>5, <1>9, <1>10 DEF AskedInv, Settled, Concluded, real
<1>13. EndInv'
  BY <1>10 DEF EndInv, Concluded
<1>14. QED BY <1>11, <1>12, <1>13

(* The clarification asks about every real entry that is unresolved.       *)
LEMMA ClarificationAsks ==
  ASSUME ListInv, JudgedInv, GenerateClarification
  PROVE  JudgedInv' /\ AskedInv' /\ EndInv'
<1> DEFINE s == [i \in DOMAIN list |-> Asked(list[i])]
<1>1. /\ pc' = "finalize_validation" /\ list' = s \o s /\ UNCHANGED results
      /\ Judged
  BY DEF GenerateClarification, Judged
<1>2. /\ \A i \in DOMAIN s : s[i] = Asked(list[i])
      /\ DOMAIN s = DOMAIN list
      /\ s = [i \in DOMAIN list |-> s[i]]
  OBVIOUS
<1> HIDE DEF s
<1>3. IsSeq(s)
  BY <1>2, SeqDomain, FunctionIsSeq DEF ListInv
<1>4. \A k \in DOMAIN list' : \E i \in DOMAIN list : list'[k] = Asked(list[i]) /\ IsEntry(list[i])
  <2>1. ASSUME NEW k \in DOMAIN list'
        PROVE  \E i \in DOMAIN list : list'[k] = Asked(list[i]) /\ IsEntry(list[i])
    <3>1. PICK i \in DOMAIN s : (s \o s)[k] = s[i]
      BY <1>1, <1>3, <2>1, Doubled
    <3>2. QED BY <1>1, <1>2, <3>1 DEF ListInv
  <2>2. QED BY <2>1
<1>5. (\E k \in DOMAIN list' : IsCritical(list'[k])) => \E i \in DOMAIN list : IsCritical(list[i])
  BY <1>4, AskedKeeps
<1>6. (\A i \in DOMAIN list : ~IsUnresolved(list[i])) => \A k \in DOMAIN list' : ~IsUnresolved(list'[k])
  BY <1>4, AskedKeeps
<1>7. \A k \in DOMAIN list' : IsUnresolvedReal(list'[k]) =>
        /\ list'[k].question # Absent
        /\ list'[k].question.template \in {TypeKey(list'[k]), "default"}
  BY <1>4, AskedKeeps
<1>8. JudgedInv'
  BY <1>1, <1>5, <1>6 DEF JudgedInv, Ended
<1>9. AskedInv'
  BY <1>7 DEF AskedInv
<1>10. EndInv'
  BY <1>1 DEF EndInv, Concluded
<1>11. QED BY <1>8, <1>9, <1>10

(* Every step keeps what was judged and asked.                             *)
LEMMA JudgementKeeps ==
  ListInv /\ ResultsInv /\ TwiceInv /\ JudgedInv /\ AskedInv /\ EndInv /\ [Next]_vars
    => JudgedInv' /\ AskedInv' /\ EndInv'
<1> SUFFICES ASSUME ListInv, ResultsInv, TwiceInv, JudgedInv, AskedInv, EndInv, [Next]_vars
             PROVE  JudgedInv' /\ AskedInv' /\ EndInv'
  OBVIOUS
<1>1. ASSUME pc' \in {"extract", "attempt_validation", "evaluate_validation", "critique_validation"}
      PROVE  JudgedInv' /\ AskedInv' /\ EndInv'
  BY <1>1 DEF JudgedInv, AskedInv, EndInv, Judged, Settled, Concluded, Ended
<1>2. CASE ReadDocument \/ AttemptFails
  BY <1>1, <1>2 DEF ReadDocument, AttemptFails
<1>3. CASE ExtractionPasses \/ AttemptValidation \/ EvaluateValidation \/ ValidationRetries
  BY <1>1, <1>3 DEF ExtractionPasses, AttemptValidation, EvaluateValidation, ValidationRetries,
     StartValidation
<1>4. CASE ExtractionUnavailable \/ ExtractionFails \/ ValidationFails
  <2>1. pc' = "done" /\ results'.status # "validated" /\ results'.confidence = 0
    BY <1>4 DEF ExtractionUnavailable, ExtractionFails, Unprocessed, ValidationFails, NoResults
  <2>2. QED BY <2>1 DEF JudgedInv, AskedInv, EndInv, Judged, Settled, Concluded, Ended
<1>5. CASE CritiqueValidation
  BY <1>5, CritiqueJudges
<1>6. CASE GenerateClarification
  BY <1>6, ClarificationAsks
<1>7. CASE FinalizeValidation
  BY <1>7 DEF FinalizeValidation, JudgedInv, AskedInv, EndInv, Judged, Settled, Concluded, Ended
<1>8. CASE Gate2Completeness
  BY <1>8 DEF Gate2Completeness, JudgedInv, AskedInv, EndInv, Judged, Settled, Concluded, Ended
<1>9. CASE UNCHANGED vars
  BY <1>9 DEF vars, validating, JudgedInv, AskedInv, EndInv, Judged, Settled, Concluded, Ended
<1>10. QED
  BY <1>2, <1>3, <1>4, <1>5, <1>6, <1>7, <1>8, <1>9 DEF Next, Extract, Validate

-----------------------------------------------------------------------------
LEMMA InitIInv == Init => IInv
<1> SUFFICES ASSUME Init PROVE IInv
  OBVIOUS
<1> USE DEF Init
<1>1. uploads \in Uploads /\ Len(uploads) \in Nat
  BY UploadsAreSequences
<1>2. ExtractInv
  <2>1. DOMAIN byId = {} /\ index - 1 = 0 /\ index \in 1..(Len(uploads) + 1)
    BY <1>1 DEF NoData
  <2>2. byId = [id \in DOMAIN byId |-> byId[id]]
    BY DEF NoData
  <2>3. QED BY <1>1, <2>1, <2>2 DEF ExtractInv, Extracted
<1>3. ListInv
  BY EmptyIsSeq, PriorsAssumption DEF ListInv, IsSeq, IsEntry
<1>4. DataInv /\ SharedInv /\ TwiceInv
  BY DEF DataInv, SharedInv, TwiceInv, ValidationNodes, Concluded
<1>5. ResultsInv
  BY DEF ResultsInv, NoResults
<1>6. JudgedInv /\ AskedInv /\ EndInv
  BY DEF JudgedInv, AskedInv, EndInv, Judged, Settled, Concluded, Ended
<1>7. QED BY <1>2, <1>3, <1>4, <1>5, <1>6 DEF IInv

(* The inductive invariant holds in every reachable state.                 *)
LEMMA Invariance == Spec => []IInv
<1>1. IInv /\ [Next]_vars => IInv'
  BY ExtractionKeeps, ListsKeep, ResultsKeep, JudgementKeeps DEF IInv
<1>2. QED BY InitIInv, <1>1, PTL DEF Spec

(* In every reachable state the documents that go on are all of the        *)
(* uploaded types or none, and what is handed on for a type was read in    *)
(* the file of it that was uploaded last: however many documents there     *)
(* are, however often and wherever the list has each of them, and          *)
(* whichever attempt at whichever of its places fails.                     *)
THEOREM DocumentsAllOrNone == Spec => []AllOrNothing
<1>1. IInv => AllOrNothing
  BY AllOrNothingHolds DEF IInv
<1>2. QED BY Invariance, <1>1, PTL

(* The counters stay below their limits, and no attempt is on the books    *)
(* when there is no document left.                                         *)
StepsInv ==
  /\ attempt \in 0..(MaxAttempts - 1)
  /\ index > Len(uploads) => attempt = 0
  /\ retries \in 0..MaxReruns
  /\ pc \in DOMAIN NodesFrom

(* The attempts the documents from i on still have, t of them being made at *)
(* document i.                                                             *)
AttemptsFrom(i, t) == (Len(uploads) + 1 - i) * MaxAttempts - t

LEMMA AttemptsFromAre ==
  ASSUME IInv, StepsInv
  PROVE  /\ AttemptsFrom(index, attempt) \in Nat
         /\ index <= Len(uploads) =>
              /\ AttemptsFrom(index + 1, 0) \in Nat
              /\ AttemptsFrom(index + 1, 0) < AttemptsFrom(index, attempt)
              /\ attempt + 1 < MaxAttempts =>
                   /\ AttemptsFrom(index, attempt + 1) \in Nat
                   /\ AttemptsFrom(index, attempt + 1) < AttemptsFrom(index, attempt)
<1>1. Len(uploads) \in Nat /\ index \in 1..(Len(uploads) + 1)
  BY UploadsAssumption, LenProperties DEF IInv, ExtractInv
<1>2. MaxAttempts \in Nat /\ attempt \in 0..(MaxAttempts - 1)
  BY LimitsAssumption DEF StepsInv
<1>3. \A k, m \in Nat : k * m \in Nat /\ (k + 1) * m = k * m + m
  OBVIOUS
<1>4. CASE index > Len(uploads)
  <2>1. Len(uploads) + 1 - index = 0 /\ attempt = 0
    BY <1>1, <1>4 DEF StepsInv
  <2>2. QED BY <1>1, <1>2, <1>4, <2>1 DEF AttemptsFrom
<1>5. CASE index <= Len(uploads)
  <2> DEFINE k == Len(uploads) - index
  <2>1. k \in Nat
    BY <1>1, <1>5
  <2>2. Len(uploads) + 1 - index = k + 1 /\ Len(uploads) + 1 - (index + 1) = k
    BY <1>1
  <2> HIDE DEF k
  <2>3. PICK p \in Nat : p = k * MaxAttempts /\ (k + 1) * MaxAttempts = p + MaxAttempts
    BY <1>2, <1>3, <2>1
  <2>4. /\ AttemptsFrom(index + 1, 0) = p
        /\ AttemptsFrom(index, attempt) = p + MaxAttempts - attempt
        /\ AttemptsFrom(index, attempt + 1) = p + MaxAttempts - (attempt + 1)
    <3>1. /\ (Len(uploads) + 1 - (index + 1)) * MaxAttempts = p
          /\ (Len(uploads) + 1 - index) * MaxAttempts = p + MaxAttempts
      BY <2>2, <2>3, Zenon
    <3>2. p - 0 = p
      OBVIOUS
    <3>3. AttemptsFrom(index + 1, 0) = p
      BY <3>1, <3>2, Zenon DEF AttemptsFrom
    <3>4. ASSUME NEW n \in Nat PROVE AttemptsFrom(index, n) = p + MaxAttempts - n
      <4> DEFINE q == (Len(uploads) + 1 - index) * MaxAttempts
      <4>1. AttemptsFrom(index, n) = q - n
        BY DEF AttemptsFrom
      <4>2. q = p + MaxAttempts
        BY <3>1
      <4> HIDE DEF q
      <4>3. QED BY <1>2, <4>1, <4>2
    <3>5. attempt \in Nat /\ attempt + 1 \in Nat
      BY <1>2
    <3>6. QED BY <3>3, <3>4, <3>5
  <2>5. QED BY <1>1, <1>2, <2>4
<1>6. QED BY <1>1, <1>4, <1>5

(* Fewer attempts and nodes, and as many runs of the graph; or one run less. *)
LEMMA FewerSteps ==
  ASSUME NEW a \in Nat, NEW b \in Nat, NEW k \in Nat, NEW n \in 0..7, NEW m \in 0..7,
         b + m < a + n
  PROVE  b + 6 * k + m \in 0..(a + 6 * k + n - 1)
OBVIOUS

LEMMA OneRunLess ==
  ASSUME NEW a \in Nat, NEW k \in Nat, NEW n \in 1..7
  PROVE  a + 6 * k + 6 \in 0..(a + 6 * (k + 1) + n - 1)
OBVIOUS

LEMMA NodesFromAre ==
  /\ DOMAIN NodesFrom = {"extract", "done"} \cup ValidationNodes
  /\ NodesFrom["extract"] = 7 /\ NodesFrom["attempt_validation"] = 6
  /\ NodesFrom["evaluate_validation"] = 5 /\ NodesFrom["critique_validation"] = 4
  /\ NodesFrom["generate_clarification"] = 3 /\ NodesFrom["finalize_validation"] = 2
  /\ NodesFrom["gate_2_completeness"] = 1 /\ NodesFrom["done"] = 0
BY DEF NodesFrom, ValidationNodes

(* Steps of the extraction use up attempts, or go on to the validation. *)
LEMMA ExtractionStepsRunOut ==
  ASSUME IInv, StepsInv, Extract
  PROVE  StepsInv' /\ StepsLeft' \in 0..(StepsLeft - 1)
<1> DEFINE k == MaxReruns - retries
           a == AttemptsFrom(index, attempt)
<1>1. /\ MaxAttempts \in Nat /\ MaxAttempts > 0 /\ k \in Nat
      /\ attempt \in 0..(MaxAttempts - 1) /\ retries \in 0..MaxReruns
      /\ Len(uploads) \in Nat /\ index \in 1..(Len(uploads) + 1)
  BY LimitsAssumption, UploadsAssumption, LenProperties DEF StepsInv, IInv, ExtractInv
<1>2. pc = "extract" /\ uploads' = uploads /\ retries' = retries
  BY DEF Extract, ReadDocument, AttemptFails, ExtractionUnavailable, ExtractionFails,
         ExtractionPasses, StartValidation, extraction, validating
<1> HIDE DEF k, a
<1>3. StepsLeft = a + 6 * k + 7
  BY <1>2, NodesFromAre DEF StepsLeft, AttemptsFrom, k, a
<1>4. ASSUME NEW i, NEW t, NEW node, index' = i, attempt' = t, pc' = node
      PROVE  StepsLeft' = AttemptsFrom(i, t) + 6 * k + NodesFrom[node]
  BY <1>2, <1>4 DEF StepsLeft, AttemptsFrom, NodesFrom, k
<1>5. a \in Nat
  BY AttemptsFromAre DEF a
<1>6. ASSUME index <= Len(uploads), index' = index + 1, attempt' = 0, pc' = pc
      PROVE  StepsInv' /\ StepsLeft' \in 0..(StepsLeft - 1)
  <2>1. AttemptsFrom(index + 1, 0) \in Nat /\ AttemptsFrom(index + 1, 0) < a
    BY <1>6, AttemptsFromAre DEF a
  <2>2. AttemptsFrom(index + 1, 0) + 6 * k + 7 \in 0..(a + 6 * k + 7 - 1)
    BY <1>1, <1>5, <2>1, FewerSteps
  <2>3. StepsLeft' = AttemptsFrom(index + 1, 0) + 6 * k + 7
    BY <1>2, <1>4, <1>6, NodesFromAre
  <2>4. StepsInv'
    BY <1>1, <1>2, <1>6, NodesFromAre DEF StepsInv, NodesFrom
  <2>5. QED BY <1>1, <1>3, <1>5, <2>2, <2>3, <2>4
<1>7. CASE ReadDocument
  BY <1>6, <1>7 DEF ReadDocument
<1>8. CASE AttemptFails
  <2>1. CASE attempt + 1 < MaxAttempts
    <3>1. index <= Len(uploads) /\ pc' = pc /\ attempt' = attempt + 1 /\ index' = index
      BY <1>8, <2>1 DEF AttemptFails
    <3>2. AttemptsFrom(index, attempt + 1) \in Nat /\ AttemptsFrom(index, attempt + 1) < a
      BY <2>1, <3>1, AttemptsFromAre DEF a
    <3>3. AttemptsFrom(index, attempt + 1) + 6 * k + 7 \in 0..(a + 6 * k + 7 - 1)
      BY <1>1, <1>5, <3>2, FewerSteps
    <3>4. StepsLeft' = AttemptsFrom(index, attempt + 1) + 6 * k + 7
      BY <1>2, <1>4, <3>1, NodesFromAre
    <3>5. StepsInv'
      BY <1>1, <1>2, <2>1, <3>1, NodesFromAre DEF StepsInv, NodesFrom
    <3>6. QED BY <1>1, <1>3, <1>5, <3>3, <3>4, <3>5
  <2>2. CASE ~(attempt + 1 < MaxAttempts)
    BY <1>6, <1>8, <2>2 DEF AttemptFails
  <2>3. QED BY <2>1, <2>2
<1>9. CASE ExtractionUnavailable \/ ExtractionFails \/ ExtractionPasses
  <2>1. /\ index' = index /\ attempt' = attempt
        /\ pc' \in {"done", "attempt_validation"}
    BY <1>9 DEF ExtractionUnavailable, ExtractionFails, ExtractionPasses, Unprocessed,
                StartValidation, extraction
  <2>2. NodesFrom[pc'] \in 0..6
    BY <2>1, NodesFromAre
  <2>3. a + 6 * k + NodesFrom[pc'] \in 0..(a + 6 * k + 7 - 1)
    BY <1>1, <1>5, <2>2, FewerSteps
  <2>4. StepsLeft' = a + 6 * k + NodesFrom[pc']
    BY <1>4, <2>1 DEF a
  <2>5. StepsInv'
    BY <1>1, <1>2, <2>1 DEF StepsInv, NodesFrom
  <2>6. QED BY <1>1, <1>3, <1>5, <2>3, <2>4, <2>5
<1>10. QED BY <1>7, <1>8, <1>9 DEF Extract

(* Steps of the validation graph go on to a later node, a later run or the  *)
(* end.                                                                    *)
LEMMA ValidationStepsRunOut ==
  ASSUME IInv, StepsInv, Validate \/ ValidationRetries \/ ValidationFails
  PROVE  StepsInv' /\ StepsLeft' \in 0..(StepsLeft - 1)
<1> DEFINE k == MaxReruns - retries
           a == AttemptsFrom(index, attempt)
<1>1. a \in Nat /\ k \in Nat /\ MaxReruns \in Nat /\ retries \in 0..MaxReruns
  BY AttemptsFromAre, LimitsAssumption DEF StepsInv
<1>2. uploads' = uploads /\ index' = index /\ attempt' = attempt
  BY DEF Validate, AttemptValidation, EvaluateValidation, CritiqueValidation,
         GenerateClarification, FinalizeValidation, Gate2Completeness, ValidationRetries,
         ValidationFails, extraction
<1> HIDE DEF k, a
<1>3. /\ StepsLeft = a + 6 * k + NodesFrom[pc]
      /\ StepsLeft' = a + 6 * (MaxReruns - retries') + NodesFrom[pc']
  BY <1>2 DEF StepsLeft, AttemptsFrom, NodesFrom, k, a
<1>4. NodesFrom[pc] \in 0..7
  BY NodesFromAre DEF StepsInv, ValidationNodes
<1>5. CASE Validate \/ ValidationFails
  <2>1. retries' = retries
    BY <1>5 DEF Validate, AttemptValidation, EvaluateValidation, CritiqueValidation,
         GenerateClarification, FinalizeValidation, Gate2Completeness, ValidationFails, validating
  <2>2. \/ pc \in ValidationNodes /\ pc' = "done"
        \/ pc = "attempt_validation" /\ pc' = "evaluate_validation"
        \/ pc = "evaluate_validation" /\ pc' = "critique_validation"
        \/ /\ pc = "critique_validation"
           /\ pc' \in {"generate_clarification", "finalize_validation"}
        \/ pc = "generate_clarification" /\ pc' = "finalize_validation"
        \/ pc = "finalize_validation" /\ pc' = "gate_2_completeness"
    BY <1>5 DEF Validate, AttemptValidation, EvaluateValidation, CritiqueValidation,
         GenerateClarification, FinalizeValidation, Gate2Completeness, ValidationFails,
         ValidationNodes
  <2>3. NodesFrom[pc'] \in 0..7 /\ NodesFrom[pc'] < NodesFrom[pc]
        /\ pc' \in {"extract", "done"} \cup ValidationNodes
    BY <2>2, NodesFromAre DEF ValidationNodes
  <2>4. a + 6 * k + NodesFrom[pc'] \in 0..(a + 6 * k + NodesFrom[pc] - 1)
    BY <1>1, <1>4, <2>3, FewerSteps
  <2>5. StepsLeft' = a + 6 * k + NodesFrom[pc']
    BY <1>3, <2>1 DEF k
  <2>6. StepsInv'
    BY <1>2, <2>1, <2>3, NodesFromAre DEF StepsInv, NodesFrom
  <2>7. QED BY <1>1, <1>3, <1>4, <2>4, <2>5, <2>6
<1>6. CASE ValidationRetries
  <2>1. /\ retries < MaxReruns /\ retries' = retries + 1
        /\ pc \in ValidationNodes /\ pc' = "attempt_validation"
    BY <1>6 DEF ValidationRetries, StartValidation
  <2>2. NodesFrom[pc] \in 1..7
    BY <2>1, NodesFromAre DEF ValidationNodes
  <2>3. PICK j \in Nat : j = MaxReruns - retries' /\ k = j + 1
    BY <1>1, <2>1 DEF k
  <2>4. a + 6 * j + 6 \in 0..(a + 6 * (j + 1) + NodesFrom[pc] - 1)
    BY <1>1, <2>2, <2>3, OneRunLess
  <2>5. StepsLeft' = a + 6 * j + 6 /\ StepsLeft = a + 6 * (j + 1) + NodesFrom[pc]
    BY <1>3, <2>1, <2>3, NodesFromAre
  <2>6. StepsInv'
    BY <1>1, <1>2, <2>1 DEF StepsInv, NodesFrom
  <2>7. QED BY <1>1, <2>2, <2>3, <2>4, <2>5, <2>6
<1>7. QED BY <1>5, <1>6

(* The processing node comes to its end within the attempts, the reruns and *)
(* the nodes there are, for any uploads and limits.                        *)
THEOREM ProcessingRunsOut == Spec => StepsRunOut
<1>1. Init => StepsInv
  BY LimitsAssumption DEF Init, StepsInv, NodesFrom
<1>2. IInv /\ StepsInv /\ [Next]_vars =>
        StepsInv' /\ [StepsLeft' \in 0..(StepsLeft - 1)]_vars
  <2>1. IInv /\ StepsInv /\ Next => StepsInv' /\ StepsLeft' \in 0..(StepsLeft - 1)
    BY ExtractionStepsRunOut, ValidationStepsRunOut DEF Next
  <2>2. StepsInv /\ UNCHANGED vars => StepsInv'
    BY DEF vars, extraction, validating, StepsInv, NodesFrom
  <2>3. QED BY <2>1, <2>2
<1>3. QED BY <1>1, <1>2, Invariance, PTL DEF Spec, StepsRunOut

(* Whatever the application has open in the end is in the graph's list.    *)
LEMMA OpenIsListed ==
  ASSUME IInv, Concluded, NEW e \in Range(open)
  PROVE  \E j \in DOMAIN list : list[j] = e
<1>1. open = prior \o list /\ IsSeq(prior) /\ IsSeq(list)
  BY DEF IInv, EndInv, ListInv
<1>2. PICK k \in DOMAIN open : open[k] = e
  BY DEF Range
<1>3. \/ k \in DOMAIN prior /\ open[k] = prior[k]
      \/ k - Len(prior) \in DOMAIN list /\ open[k] = list[k - Len(prior)]
  BY <1>1, <1>2, ConcatElements
<1>4. QED BY <1>2, <1>3 DEF IInv, SharedInv

(* When validation has ended, every discrepancy judged real and unresolved *)
(* has a question of its own type or the general one, those of an earlier  *)
(* run of the node included, and the recommendation is not to proceed:     *)
(* through transient errors, reruns on what the thread kept, and a reducer *)
(* that appends the whole list again at every node.                        *)
THEOREM RealAreAsked == Spec => []RealIsAsked
<1>1. IInv => RealIsAsked
  <2> SUFFICES ASSUME IInv, Ended, results.status = "validated",
                      NEW e \in Range(open), IsUnresolvedReal(e)
               PROVE  /\ e.question # Absent /\ e.question.template \in {TypeKey(e), "default"}
                      /\ results.recommendation # "proceed_to_decision"
    BY DEF RealIsAsked
  <2>1. Concluded
    BY DEF Concluded, Ended
  <2>2. PICK j \in DOMAIN list : list[j] = e
    BY <2>1, OpenIsListed
  <2>3. IsUnresolved(e)
    BY DEF IsUnresolvedReal
  <2>4. QED BY <2>1, <2>2, <2>3 DEF IInv, AskedInv, JudgedInv, Judged, Settled
<1>2. QED BY Invariance, <1>1, PTL

(* A critical discrepancy left open is never approved, with any confidence *)
(* the agent may state and the best score there is.                        *)
THEOREM CriticalsHoldBack == Spec => []CriticalNeverApproved
<1>1. IInv => CriticalNeverApproved
  <2> SUFFICES ASSUME IInv, Ended, NEW e \in Range(open), IsCritical(e)
               PROVE  Rules!SynthesizeDecision(1000,
                        IF results.confidence = Absent THEN 0 ELSE 10 * results.confidence,
                        SeenByDecision) # "approved"
    BY DEF CriticalNeverApproved
  <2> DEFINE c == IF results.confidence = Absent THEN 0 ELSE 10 * results.confidence
  <2>1. results.confidence \in 0..70
    <3>1. CASE Concluded
      <4>1. PICK j \in DOMAIN list : list[j] = e
        BY <3>1, OpenIsListed
      <4>2. QED BY <3>1, <4>1 DEF IInv, JudgedInv, Judged, Settled
    <3>2. CASE ~Concluded
      BY <3>2 DEF IInv, JudgedInv
    <3>3. QED BY <3>1, <3>2
  <2>2. c \in Int /\ c < 800
    BY <2>1
  <2> HIDE DEF c
  <2>3. (IF c = Absent THEN 0 ELSE c) < 800
    BY <2>2
  <2>4. Rules!SynthesizeDecision(1000, c, SeenByDecision) = "manual_review"
    BY <2>3 DEF Rules!SynthesizeDecision, Rules!DecideFrom
  <2>5. QED BY <2>4 DEF c
<1>2. QED BY Invariance, <1>1, PTL

-----------------------------------------------------------------------------
(* The gates on one document and on all.                                   *)
LEMMA NumbersAreFinite ==
  ASSUME IsFiniteSet(DOMAIN data), NEW types
  PROVE  /\ IsFiniteSet(Numbers(data, types))
         /\ Numbers(data, types) \subseteq Numbers(data, DOMAIN data)
<1> DEFINE S == { u \in Among(data, types) : data[u].id # Absent }
           f == [t \in S |-> data[t].id.number]
<1>1. S \in SUBSET DOMAIN data
  BY DEF Among
<1>2. Numbers(data, types) = { f[t] : t \in S } /\ DOMAIN f = S
  BY DEF Numbers
<1>3. Numbers(data, types) \subseteq Numbers(data, DOMAIN data)
  BY DEF Numbers, Among
<1> HIDE DEF S, f
<1>4. IsFiniteSet(S)
  BY <1>1, FS_Subset
<1>5. QED BY <1>2, <1>3, <1>4, ImageIsFinite

(* The tool compares all pairs of the documents Gate 2 counts names in.    *)
LEMMA ToolsDoAgree == ExtractInv /\ DataInv => ToolsAgree
<1> SUFFICES ASSUME ExtractInv, DataInv PROVE ToolsAgree
  OBVIOUS
<1> DEFINE missing == MissingItems(results.types, data, Required)
           found == CrossDocumentCompare(data)
<1>1. ASSUME NEW item \in missing, item[1] = "identity"
      PROVE  \E d \in found : d.type = "identity_mismatch"
  <2>1. Cardinality(Numbers(data, IdentityDocuments)) > 1
    BY <1>1 DEF MissingItems
  <2>2. Cardinality(Numbers(data, DOMAIN data)) > 1
    BY <2>1, DataIsFinite, NumbersAreFinite, FS_Subset, FS_CardinalityType
  <2>3. Discrepancy("identity_mismatch", DOMAIN data, 0) \in found
    BY <2>2 DEF CrossDocumentCompare, IdentityMatch
  <2>4. QED BY <2>3 DEF Discrepancy
<1>2. ASSUME NEW item \in missing, item[1] = "name"
      PROVE  \E d \in found : d.type = "name_mismatch"
  <2>1. PICK p \in NamesDiffer(data, NamedDocuments) : TRUE
    BY <1>2 DEF MissingItems
  <2>2. p \in NamesDiffer(data, DOMAIN data)
    BY <2>1 DEF NamesDiffer, Pairs, Named, Among
  <2>3. Discrepancy("name_mismatch", p, PairSimilarity(data, p)) \in found
    BY <2>2 DEF CrossDocumentCompare, NameConsistency
  <2>4. QED BY <2>3 DEF Discrepancy
<1>3. QED BY <1>1, <1>2 DEF ToolsAgree

(* What Gate 1 let through has none of its errors.                         *)
LEMMA PassedGateOne ==
  ASSUME NEW d \in Readings, DocumentIntegrity(d),
         d.type \in {"emirates_id", "bank_statement", "credit_report", "application_form"}
  PROVE  d.missing = 0 /\ ContentErrors(d) = {}
<1>1. IsFiniteSet(ContentErrors(d))
  <2> DEFINE A == {"checksum"} \cup {"expired"} \cup {"mrz"} \cup {"income"}
             B == {"balance"} \cup {"period"} \cup {"future"} \cup {"currency"}
             C == {"score"} \cup {"facilities"}
             E == A \cup B \cup C
  <2>1. IsFiniteSet(E)
    <3>1. \A e : IsFiniteSet({e})
      BY FS_Singleton
    <3>2. \A S, T : IsFiniteSet(S) /\ IsFiniteSet(T) => IsFiniteSet(S \cup T)
      BY FS_Union
    <3>3. IsFiniteSet(A) /\ IsFiniteSet(B) /\ IsFiniteSet(C)
      BY <3>1, <3>2
    <3> HIDE DEF A, B, C
    <3>4. QED BY <3>2, <3>3
  <2>2. ContentErrors(d) \in SUBSET E
    BY DEF ContentErrors, EmiratesIdErrors, BankStatementErrors, CreditReportErrors,
       ApplicationFormErrors
  <2>3. QED BY <2>1, <2>2, FS_Subset
<1>2. d.missing \in Nat /\ d.missing + Cardinality(ContentErrors(d)) = 0
  BY ReadingsAssumption DEF DocumentIntegrity, ErrorCount
<1>3. QED BY <1>1, <1>2, CountNone

(* What Gate 3 finds of a document that passed Gate 1.                     *)
LEMMA EmiratesIdIsValid ==
  ASSUME ExtractInv, DataInv, ReadByGateThree, "emirates_id" \in DOMAIN data
  PROVE  /\ Gate3!EmiratesIdValidity(GateThreeFile) = "valid"
         /\ GateThreeFile.eid # Absent
         /\ GateThreeFile.eid.id \in Numbers(data, IdentityDocuments)
<1> DEFINE d == data["emirates_id"]
<1>1. d \in Readings /\ d.type = "emirates_id" /\ DocumentIntegrity(d)
  BY DataIsRead
<1>2. d.missing = 0 /\ EmiratesIdErrors(d) = {}
  BY <1>1, PassedGateOne DEF ContentErrors
<1>3. d.id # Absent
  BY <1>1, <1>2, ReadingsAssumption DEF IdentityDocuments
<1>4. d.id.valid /\ ~Before(Day(d.expiry), 0)
  BY <1>2, <1>3 DEF EmiratesIdErrors
<1>5. GateThreeFile.eid = [id |-> d.id.number, state |-> "valid"]
  BY <1>4 DEF GateThreeFile
<1>6. GateThreeFile.eid # Absent
  BY <1>1, <1>3, <1>5, AbsentAssumption DEF IdentityDocuments
<1>7. d.id.number \in Numbers(data, IdentityDocuments)
  BY <1>3 DEF Numbers, Among, IdentityDocuments
<1>8. QED BY <1>5, <1>6, <1>7 DEF Gate3!EmiratesIdValidity, Gate3!Present

LEMMA CreditReportIsInRange ==
  ASSUME ExtractInv, DataInv
  PROVE  /\ Gate3!CreditScoreInRange(GateThreeFile)
         /\ GateThreeFile.credit # Absent =>
              GateThreeFile.credit.id \in Numbers(data, IdentityDocuments)
<1> DEFINE d == data["credit_report"]
<1>1. CASE "credit_report" \notin DOMAIN data
  BY <1>1 DEF GateThreeFile, Gate3!CreditScoreInRange, Gate3!Present
<1>2. CASE "credit_report" \in DOMAIN data
  <2>1. d \in Readings /\ d.type = "credit_report" /\ DocumentIntegrity(d)
    BY <1>2, DataIsRead
  <2>2. d.missing = 0 /\ CreditReportErrors(d) = {}
    BY <2>1, PassedGateOne DEF ContentErrors
  <2>3. d.id # Absent /\ d.score # Absent
    BY <2>1, <2>2, ReadingsAssumption DEF IdentityDocuments
  <2>4. d.score \in 300..900
    BY <2>2, <2>3 DEF CreditReportErrors
  <2>5. GateThreeFile.credit = [id |-> d.id.number, score |-> d.score]
    BY <1>2 DEF GateThreeFile
  <2>6. d.id.number \in Numbers(data, IdentityDocuments)
    BY <1>2, <2>3 DEF Numbers, Among, IdentityDocuments
  <2>7. QED BY <2>4, <2>5, <2>6 DEF Gate3!CreditScoreInRange
<1>3. QED BY <1>1, <1>2

(* Gate 3 reads a bank statement's balances as Gate 1 does.                *)
LEMMA BankStatementDoesReconcile ==
  ASSUME ExtractInv, DataInv
  PROVE  Gate3!BankStatementReconciles(GateThreeFile)
<1> DEFINE d == data["bank_statement"]
<1>1. CASE "bank_statement" \notin DOMAIN data
  BY <1>1 DEF GateThreeFile, Gate3!BankStatementReconciles, Gate3!Present
<1>2. CASE "bank_statement" \in DOMAIN data
  <2>1. d \in Readings /\ d.type = "bank_statement" /\ DocumentIntegrity(d)
    BY <1>2, DataIsRead
  <2>2. BankStatementErrors(d) = {}
    BY <2>1, PassedGateOne DEF ContentErrors
  <2>3. Reconciles(d)
    BY <2>2 DEF BankStatementErrors
  <2>4. QED BY <1>2, <2>3 DEF GateThreeFile, Gate3!BankStatementReconciles
<1>3. QED BY <1>1, <1>2

(* A form that passed Gate 1 has the identity number Gate 3 looks for.     *)
LEMMA FormIsPresent ==
  ASSUME ExtractInv, DataInv
  PROVE  /\ "application_form" \in DOMAIN data => GateThreeFile.form # Absent
         /\ GateThreeFile.form # Absent =>
              GateThreeFile.form.id \in Numbers(data, IdentityDocuments)
<1> DEFINE d == data["application_form"]
<1>1. CASE "application_form" \notin DOMAIN data
  BY <1>1 DEF GateThreeFile
<1>2. CASE "application_form" \in DOMAIN data
  <2>1. d \in Readings /\ d.type = "application_form" /\ DocumentIntegrity(d)
    BY <1>2, DataIsRead
  <2>2. d.missing = 0
    BY <2>1, PassedGateOne
  <2>3. d.id # Absent
    BY <2>1, <2>2, ReadingsAssumption DEF IdentityDocuments
  <2>4. GateThreeFile.form = [id |-> d.id.number]
    BY <1>2 DEF GateThreeFile
  <2>5. GateThreeFile.form # Absent
    BY <2>1, <2>3, <2>4, AbsentAssumption DEF IdentityDocuments
  <2>6. d.id.number \in Numbers(data, IdentityDocuments)
    BY <1>2, <2>3 DEF Numbers, Among, IdentityDocuments
  <2>7. QED BY <2>4, <2>5, <2>6
<1>3. QED BY <1>1, <1>2

(* Gate 2 with nothing missing: every required document, one identity.     *)
LEMMA GateTwoMeansConsistent ==
  ASSUME ExtractInv, DataInv, MissingItems(results.types, data, Required) = {}
  PROVE  /\ Required \subseteq DOMAIN data
         /\ \A m, n \in Numbers(data, IdentityDocuments) : m = n
<1>1. Required \ DOMAIN data = {}
  BY DEF MissingItems
<1>2. ~(Cardinality(Numbers(data, IdentityDocuments)) > 1)
  BY DEF MissingItems
<1>3. IsFiniteSet(Numbers(data, IdentityDocuments))
  BY DataIsFinite, NumbersAreFinite
<1>4. ASSUME NEW m \in Numbers(data, IdentityDocuments),
             NEW n \in Numbers(data, IdentityDocuments), m # n
      PROVE  FALSE
  BY <1>2, <1>3, <1>4, CountTwo
<1>5. QED BY <1>1, <1>4

(* The comparison tool finds what Gate 2 calls inconsistent; and Gate 3    *)
(* passes what Gates 1 and 2 have passed, for any documents whose dates and *)
(* balances it can read.                                                   *)
THEOREM GatesDoAgree == Spec => []GatesAgree
<1>1. IInv => GatesAgree
  <2> SUFFICES ASSUME IInv PROVE GatesAgree
    OBVIOUS
  <2>1. ExtractInv /\ DataInv /\ ToolsAgree
    BY ToolsDoAgree DEF IInv
  <2> DEFINE F == GateThreeFile
             verdict == Gate3!CheckHardEligibilityRules(F, {})
  <2>2. ASSUME Ended, "emirates_id" \in DOMAIN data, ReadByGateThree
        PROVE  /\ verdict \in {"passed", "identity", "documents"}
               /\ results.status = "validated" /\ gate = "passed"
                    /\ {"emirates_id", "application_form"} \subseteq Required
                  => verdict = "passed"
    <3>1. /\ Gate3!EmiratesIdValidity(F) = "valid" /\ Gate3!CreditScoreInRange(F)
          /\ Gate3!BankStatementReconciles(F)
      BY <2>1, <2>2, EmiratesIdIsValid, CreditReportIsInRange, BankStatementDoesReconcile
    <3>2. verdict \in {"passed", "identity", "documents"}
      BY <3>1 DEF Gate3!CheckHardEligibilityRules
    <3>3. ASSUME results.status = "validated", gate = "passed",
                 {"emirates_id", "application_form"} \subseteq Required
          PROVE  verdict = "passed"
      <4>1. /\ "application_form" \in DOMAIN data
            /\ \A m, n \in Numbers(data, IdentityDocuments) : m = n
        BY <2>1, <2>2, <3>3, GateTwoMeansConsistent DEF IInv, EndInv, Concluded, Ended
      <4>2. F.eid # Absent /\ F.form # Absent
        BY <2>1, <2>2, <4>1, EmiratesIdIsValid, FormIsPresent
      <4>3. ASSUME NEW a \in Gate3!IdentityNumbers(F)
            PROVE  a \in Numbers(data, IdentityDocuments)
        <5>1. PICK doc \in {F.eid, F.credit, F.form} : doc # Absent /\ a = doc.id
          BY DEF Gate3!IdentityNumbers, Gate3!Present
        <5>2. QED BY <2>1, <2>2, <5>1, EmiratesIdIsValid, CreditReportIsInRange, FormIsPresent
      <4>4. Gate3!IdentityConsistent(F)
        BY <4>1, <4>3 DEF Gate3!IdentityConsistent
      <4>5. Gate3!RequiredDocumentsPresent(F, {})
        BY <4>2 DEF Gate3!RequiredDocumentsPresent, Gate3!Present
      <4>6. QED BY <3>1, <4>4, <4>5 DEF Gate3!CheckHardEligibilityRules
    <3>4. QED BY <3>2, <3>3
  <2>3. QED BY <2>1, <2>2 DEF GatesAgree
<1>2. QED BY Invariance, <1>1, PTL

-----------------------------------------------------------------------------
(* The generated packages. *)

DocumentTypes ==
  {"emirates_id", "bank_statement", "credit_report", "resume", "assets_liabilities",
   "application_form"}

(* The steps left for the applicant in hand: the report comes last, and     *)
(* only the CLI writes one.                                                *)
ReportComesLast ==
  \A i \in DOMAIN next : next[i] = "report" => i = Len(next) /\ program = "cli"

(* This batch wrote what the seed in hand is not still to be given.        *)
DoneIsWritten ==
  program = "cli" /\ next # <<>> =>
    /\ seed \in ToSet(Seeds)
    /\ \A f \in Files \ ToSet(next) : disk[<<outputDir, seed>>][f] = batch

PackagesInv ==
  /\ program \in {"none", "cli", "test_data"}
  /\ next \in Seq(Files)
  /\ program = "none" => next = <<>>
  /\ program = "cli" => left \in Seq(ToSet(Seeds))
  /\ ok # {} \/ program = "cli" => outputDir \in OutputDirs
  /\ ok \subseteq ToSet(Seeds)
  /\ disk \in [Directories -> [Files -> Nat]]
  /\ batch \in Nat
  /\ ReportComesLast
  /\ DoneIsWritten
  /\ OkPackagesAreWhole

(* The steps of a program: all the files, the report last, or without it.  *)
LEMMA StepsOfCli ==
  /\ Steps.cli \in Seq(Files)
  /\ ToSet(Steps.cli) = Files
  /\ \A i \in DOMAIN Steps.cli :
       /\ Steps.cli[i] = "report" => i = Len(Steps.cli)
       /\ Steps.cli[i] = "credit_report" => i = 3
       /\ Steps.cli[i] = "assets_liabilities" => i = 5
<1> DEFINE e == <<"data", "report">>
           s == Documents \o e
<1>1. /\ Len(Documents) = 6 /\ DOMAIN Documents = 1..6 /\ Len(e) = 2 /\ DOMAIN e = 1..2
      /\ \A i \in 1..6 : /\ Documents[i] # "report"
                         /\ Documents[i] = "credit_report" => i = 3
                         /\ Documents[i] = "assets_liabilities" => i = 5
      /\ e[1] = "data" /\ e[2] = "report"
  BY DEF Documents
<1>2. Documents \in Seq(Files) /\ e \in Seq(Files)
  <2>1. \A i \in 1..6 : Documents[i] \in Files
    BY <1>1 DEF Files, ToSet
  <2>2. \A i \in 1..2 : e[i] \in Files
    BY <1>1 DEF Files
  <2>3. Documents \in Seq(Files)
    BY <2>1 DEF Documents
  <2>4. e \in Seq(Files)
    BY <2>2
  <2>5. QED BY <2>3, <2>4
<1> HIDE DEF e
<1>3. /\ s \in Seq(Files) /\ Len(s) = 8 /\ DOMAIN s = 1..8
      /\ \A i \in 1..8 : s[i] = IF i <= 6 THEN Documents[i] ELSE e[i - 6]
  <2>1. /\ s \in Seq(Files)
        /\ Len(s) = Len(Documents) + Len(e)
        /\ \A i \in 1..(Len(Documents) + Len(e)) :
             s[i] = IF i <= Len(Documents) THEN Documents[i] ELSE e[i - Len(Documents)]
    BY <1>2, ConcatProperties
  <2>2. Len(Documents) + Len(e) = 8
    BY <1>1
  <2> HIDE DEF s
  <2>3. DOMAIN s = 1..Len(s)
    BY <2>1, LenProperties
  <2>4. QED BY <1>1, <2>1, <2>2, <2>3
<1> HIDE DEF s
<1>4. \A i \in 1..8 : /\ s[i] = "report" => i = 8
                      /\ s[i] = "credit_report" => i = 3
                      /\ s[i] = "assets_liabilities" => i = 5
  <2> SUFFICES ASSUME NEW i \in 1..8
               PROVE  /\ s[i] = "report" => i = 8
                      /\ s[i] = "credit_report" => i = 3
                      /\ s[i] = "assets_liabilities" => i = 5
    OBVIOUS
  <2>1. CASE i <= 6
    BY <1>1, <1>3, <2>1
  <2>2. CASE i > 6
    <3>1. i - 6 \in 1..2 /\ s[i] = e[i - 6] /\ (i - 6 = 2 => i = 8)
      BY <1>3, <2>2
    <3>2. \A k \in 1..2 : e[k] \in {"data", "report"} /\ (e[k] = "report" => k = 2)
      BY <1>1
    <3>3. QED BY <3>1, <3>2
  <2>3. QED BY <2>1, <2>2
<1>5. \A f \in Files : \E i \in 1..8 : s[i] = f
  <2>1. \A i \in 1..6 : i \in 1..8 /\ s[i] = Documents[i]
    BY <1>3
  <2>2. s[7] = "data" /\ s[8] = "report"
    BY <1>1, <1>3
  <2>3. \A f \in ToSet(Documents) : \E i \in 1..6 : Documents[i] = f
    BY <1>1 DEF ToSet
  <2>4. QED BY <2>1, <2>2, <2>3 DEF Files
<1>6. ToSet(s) = Files
  <2>1. \A i \in 1..8 : s[i] \in Files
    BY <1>3, ElementOfSeq
  <2>2. QED BY <1>3, <1>5, <2>1 DEF ToSet
<1>7. Steps.cli = s
  BY DEF Steps, e, s
<1>8. QED BY <1>3, <1>4, <1>6, <1>7

LEMMA StepsOfScript ==
  /\ Steps.test_data \in Seq(Files)
  /\ \A i \in DOMAIN Steps.test_data :
       Steps.test_data[i] \notin {"report", "assets_liabilities"}
<1> DEFINE e == <<"data">>
           s == TestDocuments \o e
<1>1. /\ Len(TestDocuments) = 4 /\ DOMAIN TestDocuments = 1..4 /\ Len(e) = 1 /\ DOMAIN e = 1..1
      /\ \A i \in 1..4 : TestDocuments[i] \notin {"report", "assets_liabilities"}
      /\ e[1] = "data"
  BY DEF TestDocuments
<1>2. TestDocuments \in Seq(Files) /\ e \in Seq(Files)
  <2>1. \A i \in 1..6 : Documents[i] \in Files
    BY DEF Files, ToSet, Documents
  <2>2. \A i \in 1..4 : TestDocuments[i] \in Files
    BY <2>1 DEF Documents, TestDocuments
  <2>3. TestDocuments \in Seq(Files)
    BY <2>2 DEF TestDocuments
  <2>4. e \in Seq(Files)
    BY DEF Files
  <2>5. QED BY <2>3, <2>4
<1> HIDE DEF e
<1>3. /\ s \in Seq(Files) /\ DOMAIN s = 1..5
      /\ \A i \in 1..5 : s[i] = IF i <= 4 THEN TestDocuments[i] ELSE e[i - 4]
  <2>1. /\ s \in Seq(Files)
        /\ Len(s) = Len(TestDocuments) + Len(e)
        /\ \A i \in 1..(Len(TestDocuments) + Len(e)) :
             s[i] = IF i <= Len(TestDocuments) THEN TestDocuments[i]
                    ELSE e[i - Len(TestDocuments)]
    BY <1>2, ConcatProperties
  <2>2. Len(TestDocuments) + Len(e) = 5
    BY <1>1
  <2> HIDE DEF s
  <2>3. DOMAIN s = 1..Len(s)
    BY <2>1, LenProperties
  <2>4. QED BY <1>1, <2>1, <2>2, <2>3
<1> HIDE DEF s
<1>4. \A i \in 1..5 : s[i] \notin {"report", "assets_liabilities"}
  BY <1>1, <1>3
<1>5. Steps.test_data = s
  BY DEF Steps, e, s
<1>6. QED BY <1>3, <1>4, <1>5

-----------------------------------------------------------------------------
(* The inductive invariant, step by step.                                  *)
LEMMA InitPackagesInv == PackagesInit => PackagesInv
BY SeedsAssumption DEF PackagesInit, PackagesInv, ReportComesLast, DoneIsWritten, OkPackagesAreWhole

(* A batch that stops leaves the disk and what it printed as they are.     *)
LEMMA StoppedKeeps ==
  ASSUME PackagesInv, Stopped, UNCHANGED disk
  PROVE  PackagesInv'
BY DEF PackagesInv, Stopped, ReportComesLast, DoneIsWritten, OkPackagesAreWhole

(* A file put where it belongs. *)
LEMMA SavedFile ==
  ASSUME PackagesInv, NEW file \in Files, disk' = Saved(file), UNCHANGED <<batch, outputDir, seed>>
  PROVE  /\ disk' \in [Directories -> [Files -> Nat]]
         /\ \A d \in Directories, f \in Files : disk[d][f] = batch => disk'[d][f] = batch
         /\ <<outputDir, seed>> \in Directories => disk'[<<outputDir, seed>>][file] = batch
BY DEF PackagesInv, Saved

LEMMA CliDirectories ==
  ASSUME NEW o \in OutputDirs, NEW s \in ToSet(Seeds)
  PROVE  <<o, s>> \in Directories
BY DEF Directories

(* The step in hand is done: its file is written, the rest is left.        *)
LEMMA StepDone ==
  ASSUME PackagesInv, NEW file \in Files, file # "report", Doing(file),
         disk' = Saved(file), next' = Tail(next),
         UNCHANGED <<batch, program, outputDir, left, seed, ok>>
  PROVE  PackagesInv'
<1>1. /\ next \in Seq(Files) /\ next # <<>> /\ next[1] = file
      /\ Len(next) \in Nat \ {0} /\ DOMAIN next = 1..Len(next)
  BY DEF PackagesInv, Doing
<1>2. /\ Tail(next) \in Seq(Files) /\ Len(Tail(next)) = Len(next) - 1
      /\ DOMAIN Tail(next) = 1..(Len(next) - 1)
      /\ \A i \in 1..(Len(next) - 1) : Tail(next)[i] = next[i + 1]
  BY <1>1, HeadTailProperties
<1>3. ReportComesLast'
  BY <1>1, <1>2 DEF ReportComesLast, PackagesInv
<1>4. \A f \in ToSet(next) : f = file \/ f \in ToSet(Tail(next))
  <2> SUFFICES ASSUME NEW i \in 1..Len(next)
               PROVE  next[i] = file \/ next[i] \in ToSet(Tail(next))
    BY <1>1 DEF ToSet
  <2>1. CASE i = 1
    BY <1>1, <2>1
  <2>2. CASE i # 1
    <3>1. i - 1 \in 1..(Len(next) - 1) /\ (i - 1) + 1 = i
      BY <1>1, <2>2
    <3>2. i - 1 \in DOMAIN Tail(next) /\ Tail(next)[i - 1] = next[i]
      BY <1>2, <3>1
    <3>3. QED BY <3>2 DEF ToSet
  <2>3. QED BY <2>1, <2>2
<1>5. DoneIsWritten'
  <2> SUFFICES ASSUME program = "cli", next' # <<>>
               PROVE  /\ seed \in ToSet(Seeds)
                      /\ \A f \in Files \ ToSet(next') : disk'[<<outputDir, seed>>][f] = batch
    BY DEF DoneIsWritten
  <2>1. seed \in ToSet(Seeds) /\ <<outputDir, seed>> \in Directories
    BY <1>1, CliDirectories DEF PackagesInv, DoneIsWritten
  <2>2. QED BY <1>1, <1>4, <2>1, SavedFile DEF PackagesInv, DoneIsWritten
<1>6. OkPackagesAreWhole'
  <2>1. ASSUME NEW s \in ok, NEW f \in Files PROVE disk'[<<outputDir, s>>][f] = batch
    <3>1. <<outputDir, s>> \in Directories
      BY CliDirectories DEF PackagesInv
    <3>2. QED BY <3>1, SavedFile DEF PackagesInv, OkPackagesAreWhole
  <2>2. QED BY <2>1 DEF OkPackagesAreWhole
<1>7. QED BY <1>2, <1>3, <1>5, <1>6, SavedFile DEF PackagesInv

(* Or it is written, but shutil.copy2 raises and the batch ends.           *)
LEMMA PutKeeps ==
  ASSUME PackagesInv, NEW type \in ToSet(Documents), Doing(type), NEW doc, PutFile(type, doc)
  PROVE  PackagesInv'
<1>1. type \in Files /\ type # "report"
  BY DEF Files, Documents, ToSet
<1>2. ASSUME Stopped, disk' = Saved(type) PROVE PackagesInv'
  <2>1. OkPackagesAreWhole'
    <3>1. ASSUME NEW s \in ok, NEW f \in Files PROVE disk'[<<outputDir, s>>][f] = batch
      <4>1. <<outputDir, s>> \in Directories
        BY CliDirectories DEF PackagesInv
      <4>2. UNCHANGED <<batch, outputDir, seed>>
        BY <1>2 DEF Stopped
      <4>3. QED BY <1>1, <1>2, <4>1, <4>2, SavedFile DEF PackagesInv, OkPackagesAreWhole
    <3>2. QED BY <1>2, <3>1 DEF OkPackagesAreWhole, Stopped
  <2>2. disk' \in [Directories -> [Files -> Nat]]
    BY <1>1, <1>2, SavedFile DEF Stopped
  <2>3. QED BY <1>2, <2>1, <2>2 DEF PackagesInv, Stopped, ReportComesLast, DoneIsWritten
<1>3. CASE /\ disk' = Saved(type) /\ next' = Tail(next)
           /\ UNCHANGED <<batch, program, outputDir, left, seed, ok>>
  BY <1>1, <1>3, StepDone
<1>4. QED BY <1>2, <1>3 DEF PutFile

LEMMA DocumentsAre == ToSet(Documents) = DocumentTypes
<1>1. DOMAIN Documents = 1..6
  BY DEF Documents
<1>2. QED BY <1>1 DEF Documents, DocumentTypes, ToSet

LEMMA StepPackagesInv == PackagesInv /\ [PackagesNext]_packagesVars => PackagesInv'
<1> SUFFICES ASSUME PackagesInv, [PackagesNext]_packagesVars PROVE PackagesInv'
  OBVIOUS
<1>1. CASE StartBatch
  BY <1>1, SeedsAssumption DEF StartBatch, PackagesInv, ReportComesLast, DoneIsWritten, OkPackagesAreWhole
<1>2. CASE StartPackage
  <2>1. next' \in Seq(Files) /\ ReportComesLast'
    BY <1>2, StepsOfCli, StepsOfScript DEF StartPackage, PackagesInv, ReportComesLast
  <2>2. program = "cli" => left' \in Seq(ToSet(Seeds)) /\ seed' \in ToSet(Seeds)
    BY <1>2, HeadTailProperties DEF StartPackage, PackagesInv
  <2>3. DoneIsWritten'
    BY <1>2, <2>2, StepsOfCli DEF StartPackage, DoneIsWritten
  <2>4. OkPackagesAreWhole'
    BY <1>2 DEF StartPackage, PackagesInv, OkPackagesAreWhole
  <2>5. QED BY <1>2, <2>1, <2>2, <2>3, <2>4 DEF StartPackage, PackagesInv
<1>3. CASE FinishBatch \/ LeapDay \/ Killed
  BY <1>3, StoppedKeeps DEF FinishBatch, LeapDay, Killed
<1>4. CASE MakeBankStatement
  <2>1. PICK doc : IF Reconciles(doc) THEN PutFile("bank_statement", doc) ELSE Stopped /\ UNCHANGED disk
    BY <1>4 DEF MakeBankStatement
  <2>2. QED BY <1>4, <2>1, StoppedKeeps, PutKeeps, DocumentsAre
       DEF MakeBankStatement, DocumentTypes
<1>5. CASE \/ MakeEmiratesId \/ MakeCreditReport \/ MakeResume
           \/ MakeAssetsLiabilities \/ MakeApplicationForm
  <2>1. PICK type \in ToSet(Documents) : Doing(type) /\ \E doc : PutFile(type, doc)
    BY <1>5, DocumentsAre DEF DocumentTypes, MakeEmiratesId, MakeCreditReport, MakeResume,
       MakeAssetsLiabilities, MakeApplicationForm
  <2>2. QED BY <2>1, PutKeeps
<1>6. CASE WriteData
  BY <1>6, StepDone DEF WriteData, Files
<1>7. CASE WriteReport
  <2>1. /\ next \in Seq(Files) /\ next # <<>> /\ next[1] = "report"
        /\ Len(next) \in Nat \ {0} /\ DOMAIN next = 1..Len(next)
    BY <1>7 DEF PackagesInv, WriteReport, Doing
  <2>2. program = "cli" /\ Len(next) = 1 /\ ToSet(next) = {"report"}
    BY <2>1 DEF PackagesInv, ReportComesLast, ToSet
  <2>3. seed \in ToSet(Seeds) /\ <<outputDir, seed>> \in Directories
    BY <2>1, <2>2, CliDirectories DEF PackagesInv, DoneIsWritten
  <2>4. "report" \in Files /\ disk' = Saved("report") /\ UNCHANGED <<batch, outputDir, seed>>
    BY <1>7 DEF WriteReport, Files
  <2>5. \A f \in Files : disk'[<<outputDir, seed>>][f] = batch
    BY <2>1, <2>2, <2>3, <2>4, SavedFile DEF PackagesInv, DoneIsWritten
  <2>6. ASSUME NEW s \in ok, NEW f \in Files PROVE disk'[<<outputDir, s>>][f] = batch
    <3>1. <<outputDir, s>> \in Directories
      BY CliDirectories DEF PackagesInv
    <3>2. QED BY <2>4, <3>1, SavedFile DEF PackagesInv, OkPackagesAreWhole
  <2>7. OkPackagesAreWhole'
    BY <1>7, <2>4, <2>5, <2>6 DEF OkPackagesAreWhole, WriteReport
  <2>8. next' = <<>> /\ next' \in Seq(Files) /\ ReportComesLast' /\ DoneIsWritten'
    BY <1>7 DEF WriteReport, ReportComesLast, DoneIsWritten
  <2>9. disk' \in [Directories -> [Files -> Nat]]
    BY <2>4, SavedFile
  <2>10. ok' = ok \cup {seed} /\ UNCHANGED <<batch, program, outputDir, left>>
    BY <1>7 DEF WriteReport
  <2>11. ok' \subseteq ToSet(Seeds)
    BY <2>3, <2>10 DEF PackagesInv
  <2>12. QED
    BY <2>2, <2>7, <2>8, <2>9, <2>10, <2>11 DEF PackagesInv
<1>8. CASE UNCHANGED packagesVars
  BY <1>8 DEF packagesVars, PackagesInv, ReportComesLast, DoneIsWritten, OkPackagesAreWhole
<1>9. QED
  BY <1>1, <1>2, <1>3, <1>4, <1>5, <1>6, <1>7, <1>8 DEF PackagesNext

(* A seed printed as OK has all its files, each written by the batch that   *)
(* printed it, whatever older batches left and wherever this one stops.    *)
THEOREM OkMeansWhole == PackagesSpec => []OkPackagesAreWhole
<1>1. PackagesInv => OkPackagesAreWhole
  BY DEF PackagesInv
<1>2. QED BY InitPackagesInv, StepPackagesInv, <1>1, PTL DEF PackagesSpec

-----------------------------------------------------------------------------
(* What the generators make. *)

(* The partial sums of whole numbers, as their definition means them.      *)
LEMMA PartialSumsAre ==
  ASSUME NEW s \in Seq(Int)
  PROVE  /\ PartialSums(s) \in [0..Len(s) -> Int]
         /\ PartialSums(s)[0] = 0
         /\ \A i \in 1..Len(s) : PartialSums(s)[i] = PartialSums(s)[i - 1] + s[i]
<1> DEFINE n == Len(s)
           Sums(g) == g = [i \in 0..n |-> IF i = 0 THEN 0 ELSE g[i - 1] + s[i]]
           step == [x \in (1..n) \X Int |-> x[2] + s[x[1]]]
<1>1. n \in Nat /\ \A i \in 1..n : s[i] \in Int
  OBVIOUS
<1>2. step \in [(1..n) \X Int -> Int] /\ \A i \in 1..n, x \in Int : step[<<i, x>>] = x + s[i]
  BY <1>1
<1> HIDE DEF n, step
<1>3. PICK g \in [0..n -> Int] : g[0] = 0 /\ \A i \in 1..n : g[i] = step[<<i, g[i - 1]>>]
  <2>1. 0 \in Int
    OBVIOUS
  <2>2. \E g \in [0..n -> Int] : GoesBy(g, 0, n, step)
    BY <1>1, <1>2, <2>1, RecursionExists
  <2>3. QED BY <2>2 DEF GoesBy
<1>4. Sums(g)
  <2>1. ASSUME NEW i \in 0..n PROVE g[i] = IF i = 0 THEN 0 ELSE g[i - 1] + s[i]
    <3>1. CASE i = 0
      BY <1>3, <3>1
    <3>2. CASE i # 0
      <4>1. i \in 1..n /\ g[i - 1] \in Int
        BY <3>2, <1>1
      <4>2. QED BY <1>2, <1>3, <3>2, <4>1
    <3>3. QED BY <3>1, <3>2
  <2>2. QED BY <2>1
<1>5. PartialSums(s) = CHOOSE f : Sums(f)
  BY DEF PartialSums, n
<1> HIDE DEF Sums
<1>6. Sums(PartialSums(s))
  BY <1>4, <1>5
<1> DEFINE f == PartialSums(s)
<1> HIDE DEF f
<1>7. f = [i \in 0..n |-> IF i = 0 THEN 0 ELSE f[i - 1] + s[i]]
  BY <1>6 DEF Sums, f
<1>8. f[0] = 0 /\ \A i \in 1..n : f[i] = f[i - 1] + s[i]
  <2>1. \A i \in 0..n : f[i] = IF i = 0 THEN 0 ELSE f[i - 1] + s[i]
    BY <1>7
  <2>2. QED BY <1>1, <2>1
<1>9. \A i \in 0..n : f[i] \in Int
  <2> DEFINE T == { i \in 0..n : f[i] \in Int }
  <2>0. 0 \in T
    BY <1>1, <1>8
  <2>1. ASSUME NEW i \in 1..n, i - 1 \in T PROVE i \in T
    <3>1. f[i - 1] \in Int /\ s[i] \in Int /\ f[i] = f[i - 1] + s[i]
      BY <1>1, <1>8, <2>1
    <3>2. QED BY <1>1, <3>1
  <2> HIDE DEF T
  <2>2. T = 0..n
    BY <1>1, <2>0, <2>1, ReachesAll DEF T
  <2>3. QED BY <2>2 DEF T
<1>10. f \in [0..n -> Int]
  BY <1>7, <1>9
<1>11. QED BY <1>8, <1>10 DEF f, n

LEMMA TotalOfAmounts == ASSUME NEW s \in Seq(Nat) PROVE Total(s) \in Nat
<1> DEFINE n == Len(s)
           f == PartialSums(s)
           T == { i \in 0..n : f[i] \in Nat }
<1>1. s \in Seq(Int) /\ n \in Nat /\ \A i \in 1..n : s[i] \in Nat
  OBVIOUS
<1>2. f[0] = 0 /\ \A i \in 1..n : f[i] = f[i - 1] + s[i]
  BY <1>1, PartialSumsAre
<1>3. Total(s) = f[n]
  BY DEF Total
<1> HIDE DEF n, f
<1>4. 0 \in T
  BY <1>1, <1>2
<1>5. ASSUME NEW i \in 1..n, i - 1 \in T PROVE i \in T
  <2>1. f[i - 1] \in Nat /\ s[i] \in Nat /\ f[i] = f[i - 1] + s[i]
    BY <1>1, <1>2, <1>5
  <2>2. QED BY <1>1, <2>1
<1> HIDE DEF T
<1>6. T = 0..n
  BY <1>1, <1>4, <1>5, ReachesAll DEF T
<1>7. n \in T
  BY <1>1, <1>6
<1>8. QED BY <1>3, <1>7 DEF T

(* Sums are added term by term. *)
LEMMA TotalOfSums ==
  ASSUME NEW s \in Seq(Int), NEW t \in Seq(Int), NEW u \in Seq(Int),
         Len(t) = Len(s), Len(u) = Len(s), \A i \in 1..Len(s) : u[i] = s[i] + t[i]
  PROVE  Total(u) = Total(s) + Total(t)
<1> DEFINE n == Len(s)
           a == PartialSums(s)
           b == PartialSums(t)
           c == PartialSums(u)
           T == { i \in 0..n : c[i] = a[i] + b[i] }
<1>1. n \in Nat
  OBVIOUS
<1>2. /\ a \in [0..n -> Int] /\ a[0] = 0 /\ \A i \in 1..n : a[i] = a[i - 1] + s[i]
      /\ b \in [0..n -> Int] /\ b[0] = 0 /\ \A i \in 1..n : b[i] = b[i - 1] + t[i]
      /\ c \in [0..n -> Int] /\ c[0] = 0 /\ \A i \in 1..n : c[i] = c[i - 1] + u[i]
  BY PartialSumsAre
<1>3. \A i \in 1..n : s[i] \in Int /\ t[i] \in Int /\ u[i] = s[i] + t[i]
  OBVIOUS
<1>4. Total(s) = a[n] /\ Total(t) = b[n] /\ Total(u) = c[n]
  BY DEF Total
<1> HIDE DEF n, a, b, c
<1>5. 0 \in T
  BY <1>1, <1>2
<1>6. ASSUME NEW i \in 1..n, i - 1 \in T PROVE i \in T
  <2>1. i - 1 \in 0..n /\ i \in 0..n /\ a[i - 1] \in Int /\ b[i - 1] \in Int
    BY <1>1, <1>2
  <2>2. c[i - 1] = a[i - 1] + b[i - 1]
    BY <1>6
  <2>3. a[i] = a[i - 1] + s[i] /\ b[i] = b[i - 1] + t[i] /\ c[i] = c[i - 1] + u[i]
    BY <1>2
  <2>4. c[i] = a[i] + b[i]
    BY <1>3, <2>1, <2>2, <2>3
  <2>5. QED BY <2>1, <2>4
<1> HIDE DEF T
<1>7. T = 0..n
  BY <1>1, <1>5, <1>6, ReachesAll DEF T
<1>8. n \in T
  BY <1>1, <1>7
<1>9. QED BY <1>4, <1>8 DEF T

(* Draws stay in their range, whichever end of a range of dates is first.  *)
LEMMA DateIsBetween ==
  ASSUME NEW a \in Int, NEW b \in Int, NEW d \in RandomDateBetween(a, b)
  PROVE  /\ d \in Int
         /\ d <= a \/ d <= b
         /\ a <= d \/ b <= d
BY DEF RandomDateBetween, RandInt

(* The dates that positions start: each is drawn from the one before it,   *)
(* which is the start of the position after it.                            *)
IsStarts(s, adult, n) ==
  /\ s \in Seq(Int) /\ Len(s) = n
  /\ \A i \in 1..n : s[i] \in RandomDateBetween(adult, IF i = 1 THEN -30 ELSE s[i - 1] - 60)

LEMMA StartsAre ==
  ASSUME NEW adult \in Int, NEW n \in Nat
  PROVE  \A s \in Starts(adult, n)[n] : IsStarts(s, adult, n)
<1> DEFINE S == SUBSET Seq(Int)
           Longer(k, later) ==
             { Append(later, start) :
                 start \in RandomDateBetween(adult, IF k = 1 THEN -30 ELSE later[k - 1] - 60) }
           Lengthened(k, lists) == UNION { Longer(k, later) : later \in lists }
           Lists(g) == g = [k \in 0..n |-> IF k = 0 THEN {<<>>} ELSE Lengthened(k, g[k - 1])]
           Grown(k, lists) == { s \in Lengthened(k, lists) : s \in Seq(Int) }
           step == [x \in (1..n) \X S |-> Grown(x[1], x[2])]
           Fine(k) == { s \in Seq(Int) : IsStarts(s, adult, k) }
<1>1. ASSUME NEW k \in 1..n, NEW lists, lists \subseteq Fine(k - 1)
      PROVE  Lengthened(k, lists) \subseteq Fine(k)
  <2>1. ASSUME NEW later \in lists,
               NEW start \in RandomDateBetween(adult, IF k = 1 THEN -30 ELSE later[k - 1] - 60)
        PROVE  Append(later, start) \in Fine(k)
    <3> DEFINE s == Append(later, start)
    <3>1. /\ later \in Seq(Int) /\ Len(later) = k - 1
          /\ \A i \in 1..(k - 1) : later[i] \in RandomDateBetween(adult, IF i = 1 THEN -30
                                                                   ELSE later[i - 1] - 60)
      BY <1>1 DEF IsStarts
    <3>2. start \in Int
      <4>1. CASE k = 1
        BY <4>1, DateIsBetween
      <4>2. CASE k # 1
        <5>1. later[k - 1] \in Int
          BY <3>1, <4>2
        <5>2. later[k - 1] - 60 \in Int
          BY <5>1
        <5>3. QED BY <4>2, <5>2, DateIsBetween
      <4>3. QED BY <4>1, <4>2
    <3>3. /\ s \in Seq(Int) /\ Len(s) = k
          /\ \A i \in 1..(k - 1) : s[i] = later[i]
          /\ s[k] = start
      BY <3>1, <3>2
    <3> HIDE DEF s
    <3>4. ASSUME NEW i \in 1..k
          PROVE  s[i] \in RandomDateBetween(adult, IF i = 1 THEN -30 ELSE s[i - 1] - 60)
      <4>1. CASE i = k
        <5>1. k # 1 => s[k - 1] = later[k - 1]
          BY <3>3
        <5>2. QED BY <3>3, <4>1, <5>1
      <4>2. CASE i # k
        <5>1. i \in 1..(k - 1) /\ s[i] = later[i]
          BY <3>3, <4>2
        <5>2. i # 1 => s[i - 1] = later[i - 1]
          BY <3>3, <5>1
        <5>3. QED BY <3>1, <5>1, <5>2
      <4>3. QED BY <4>1, <4>2
    <3>5. IsStarts(s, adult, k)
      BY <3>3, <3>4 DEF IsStarts
    <3>6. QED BY <3>3, <3>5 DEF s
  <2> HIDE DEF Fine
  <2>2. \A later \in lists : Longer(k, later) \subseteq Fine(k)
    BY <2>1
  <2> HIDE DEF Longer
  <2>3. QED BY <2>2
<1> HIDE DEF Lengthened
<1>2. ASSUME NEW f, f[0] = {<<>>}, \A k \in 1..n : f[k] \subseteq Lengthened(k, f[k - 1])
      PROVE  \A k \in 0..n : f[k] \subseteq Fine(k)
  <2> DEFINE T == { k \in 0..n : f[k] \subseteq Fine(k) }
  <2>1. 0 \in T
    <3>1. {<<>>} \subseteq Fine(0)
      BY DEF IsStarts
    <3> HIDE DEF Fine
    <3>2. QED BY <1>2, <3>1
  <2>2. ASSUME NEW k \in 1..n, k - 1 \in T PROVE k \in T
    <3>1. Lengthened(k, f[k - 1]) \subseteq Fine(k)
      BY <1>1, <2>2
    <3> HIDE DEF Fine
    <3>2. QED BY <1>2, <3>1
  <2> HIDE DEF T
  <2>3. T = 0..n
    BY <2>1, <2>2, ReachesAll DEF T
  <2>4. QED BY <2>3 DEF T
<1>3. PICK g \in [0..n -> S] : GoesBy(g, {<<>>}, n, step)
  <2>1. {<<>>} \in S
    OBVIOUS
  <2>2. \A x \in (1..n) \X S : step[x] \in S
    OBVIOUS
  <2>3. step \in [(1..n) \X S -> S]
    BY <2>2
  <2> HIDE DEF step, S
  <2>4. QED BY <2>1, <2>3, RecursionExists
<1>4. /\ g[0] = {<<>>}
      /\ \A k \in 1..n : g[k] = Grown(k, g[k - 1])
  <2>1. \A k \in 1..n : k - 1 \in 0..n /\ g[k - 1] \in S
    <3> HIDE DEF S, step
    <3>1. QED BY <1>3
  <2>2. \A k \in 1..n, x \in S : step[<<k, x>>] = Grown(k, x)
    OBVIOUS
  <2> HIDE DEF step, S, Grown
  <2>3. QED BY <1>3, <2>1, <2>2 DEF GoesBy
<1>5. \A k \in 0..n : g[k] \subseteq Fine(k)
  BY <1>2, <1>4
<1>6. Lists(g)
  <2>1. ASSUME NEW k \in 1..n PROVE g[k] = Lengthened(k, g[k - 1])
    <3>1. k - 1 \in 0..n
      OBVIOUS
    <3>2. Lengthened(k, g[k - 1]) \subseteq Fine(k)
      BY <1>1, <1>5, <3>1
    <3>3. QED BY <1>4, <3>2
  <2>2. \A k \in 0..n : g[k] = IF k = 0 THEN {<<>>} ELSE Lengthened(k, g[k - 1])
    BY <1>4, <2>1
  <2>3. QED BY <2>2
<1>7. Starts(adult, n) = CHOOSE f : Lists(f)
  BY DEF Starts, Lengthened
<1> HIDE DEF Lists
<1>8. Lists(Starts(adult, n))
  BY <1>6, <1>7
<1> DEFINE f == Starts(adult, n)
<1> HIDE DEF f
<1>9. f[0] = {<<>>} /\ \A k \in 1..n : f[k] = Lengthened(k, f[k - 1])
  <2>1. f = [k \in 0..n |-> IF k = 0 THEN {<<>>} ELSE Lengthened(k, f[k - 1])]
    BY <1>8 DEF Lists, f
  <2>2. \A k \in 0..n : f[k] = IF k = 0 THEN {<<>>} ELSE Lengthened(k, f[k - 1])
    BY <2>1
  <2>3. QED BY <2>2
<1>10. \A k \in 0..n : f[k] \subseteq Fine(k)
  BY <1>2, <1>9
<1>11. QED BY <1>10 DEF f

(* Amounts: whole fils from whole ranges, and close to what was drawn.     *)
LEMMA QuantizedIsNear ==
  \A x \in Int : /\ Quantized(x) \in Int
                 /\ Quantized(x) - x <= 5 /\ x - Quantized(x) <= 5
                 /\ x >= 0 => Quantized(x) >= 0
BY DEF Quantized

LEMMA DecimalsAreAmounts ==
  \A low \in Nat, high \in Nat : RandomDecimal(low, high) \subseteq Nat
<1> SUFFICES ASSUME NEW low \in Nat, NEW high \in Nat, NEW a \in RandomDecimal(low, high)
             PROVE  a \in Nat
  OBVIOUS
<1>1. PICK x \in Uniform(low * AED, high * AED) : a = Quantized(x)
  BY DEF RandomDecimal
<1>2. x \in Int /\ x >= 0
  BY DEF Uniform, AED
<1>3. QED BY <1>1, <1>2, QuantizedIsNear

(* What every profile has: one identity, a birthday at least eighteen      *)
(* years ago, a family that the dependents are part of, amounts.           *)
IsProfile(p) ==
  /\ p.name = {"given", "family"}
  /\ p.id = [number |-> 1, valid |-> TRUE]
  /\ p.birth \in Int /\ p.birth <= -18 * Year
  /\ p.family \in Nat \ {0} /\ p.dependents = Dependents(p.family)
  /\ p.salary \in Nat /\ p.other \in Nat

LEMMA SalaryIsAmount ==
  ASSUME NEW status \in EmploymentStatuses, NEW salary \in Salary(status)
  PROVE  salary \in Nat
<1>1. /\ RandomDecimal(3000, 45000) \subseteq Nat
      /\ RandomDecimal(5000, 60000) \subseteq Nat
      /\ RandomDecimal(2000, 15000) \subseteq Nat
      /\ RandomDecimal(0, 1500) \subseteq Nat
  BY DecimalsAreAmounts
<1>2. QED BY <1>1 DEF Salary, EmploymentStatuses

LEMMA OtherIsAmount ==
  ASSUME NEW status \in EmploymentStatuses, NEW salary, NEW other \in OtherIncome(status, salary)
  PROVE  other \in Nat
<1>1. /\ RandomDecimal(0, 1000) \subseteq Nat
      /\ RandomDecimal(500, 8000) \subseteq Nat
      /\ RandomDecimal(0, 5000) \subseteq Nat
      /\ RandomDecimal(0, 2000) \subseteq Nat
  BY DecimalsAreAmounts
<1>2. QED BY <1>1 DEF OtherIncome

LEMMA FamilyIsSome ==
  ASSUME NEW marital, NEW family \in FamilySize(marital)
  PROVE  family \in Nat \ {0}
BY DEF FamilySize, RandInt

LEMMA DrawnProfile == ASSUME NEW p \in Applicants PROVE IsProfile(p)
<1>1. PICK status \in EmploymentStatuses :
        \E birth \in RandInt(-70 * Year, -18 * Year), nationality \in Nationalities,
           family \in UNION { FamilySize(m) : m \in MaritalStatuses },
           salary \in Salary(status), housing \in HousingStatuses :
          \E other \in OtherIncome(status, salary), rent \in Rent(housing) :
            p = [name |-> {"given", "family"}, id |-> [number |-> 1, valid |-> TRUE],
                 address |-> "home", birth |-> birth, nationality |-> nationality,
                 family |-> family, dependents |-> Dependents(family),
                 employer |-> Employer(status), occupation |-> "Occupation",
                 salary |-> salary, other |-> other, total |-> salary + other,
                 housing |-> housing, rent |-> rent]
  BY DEF Applicants
<1>2. PICK birth \in RandInt(-70 * Year, -18 * Year), nationality \in Nationalities,
           family \in UNION { FamilySize(m) : m \in MaritalStatuses },
           salary \in Salary(status), housing \in HousingStatuses :
        \E other \in OtherIncome(status, salary) :
          /\ p.name = {"given", "family"} /\ p.id = [number |-> 1, valid |-> TRUE]
          /\ p.birth = birth /\ p.family = family /\ p.dependents = Dependents(family)
          /\ p.salary = salary /\ p.other = other
  BY <1>1
<1>3. birth \in Int /\ birth <= -18 * Year
  <2>1. birth \in (-70 * Year)..(-18 * Year)
    BY DEF RandInt
  <2>2. Year \in Int
    BY DEF Year
  <2>3. QED BY <2>1, <2>2
<1>4. family \in Nat \ {0}
  BY FamilyIsSome
<1>5. salary \in Nat /\ \A other \in OtherIncome(status, salary) : other \in Nat
  BY SalaryIsAmount, OtherIsAmount
<1>6. QED BY <1>2, <1>3, <1>4, <1>5 DEF IsProfile

LEMMA ScenariosAre ==
  ASSUME NEW s \in ToSet(Scenarios)
  PROVE  s.salary \in Nat /\ s.family \in Nat \ {0}
<1>1. DOMAIN Scenarios = 1..3
  BY DEF Scenarios
<1>2. QED BY <1>1 DEF Scenarios, Scenario, ToSet, AED

LEMMA BuiltProfile ==
  ASSUME NEW p \in Applicants, NEW s \in ToSet(Scenarios)
  PROVE  IsProfile(BuildProfile(p, s))
<1> DEFINE q == BuildProfile(p, s)
<1>1. /\ {"name", "id", "birth", "family", "dependents", "salary", "other"} \subseteq DOMAIN p
      /\ q.name = p.name /\ q.id = p.id /\ q.birth = p.birth
  BY DEF Applicants, BuildProfile
<1>2. /\ q.family = s.family /\ q.dependents = Dependents(s.family)
      /\ q.salary = s.salary /\ q.other = 0
  BY <1>1 DEF BuildProfile
<1>3. QED BY <1>1, <1>2, DrawnProfile, ScenariosAre DEF IsProfile

(* A card: no error but that it may have expired, when it was for five     *)
(* years; an Emirati's is for ten, and issued less than seven years ago.   *)
LEMMA CardFits ==
  ASSUME NEW p, IsProfile(p), NEW doc \in EmiratesIds(p)
  PROVE  /\ doc.type = "emirates_id"
         /\ doc.name = p.name /\ doc.id = p.id /\ doc.birth = p.birth /\ doc.address = p.address
         /\ RequiredFields("emirates_id") \subseteq doc.shows
         /\ ContentErrors(doc) \subseteq (IF p.nationality = "Emirati" THEN {} ELSE {"expired"})
<1>1. PICK issued \in IssueDays, validity \in Validity(p.nationality) :
        doc = Card(p, issued, validity)
  BY DEF EmiratesIds
<1>2. /\ doc.type = "emirates_id" /\ doc.shows = FrontShows \cup BackShows /\ doc.mrz = TRUE
      /\ doc.name = p.name /\ doc.id = p.id /\ doc.birth = p.birth /\ doc.address = p.address
      /\ doc.expiry = Written(issued + validity * Year)
  BY <1>1 DEF Card
<1>3. RequiredFields("emirates_id") \subseteq doc.shows
  BY <1>2 DEF RequiredFields, FrontShows, BackShows
<1>4. issued \in Int /\ -6 * 365 <= issued
  <2>1. PICK years \in RandInt(2, 5) :
          issued \in RandomDateBetween(-(years + 1) * Year, -years * Year)
    BY DEF IssueDays
  <2>2. years \in 2..5
    BY DEF RandInt
  <2>3. -(years + 1) * Year \in Int /\ -years * Year \in Int
        /\ -6 * 365 <= -(years + 1) * Year /\ -6 * 365 <= -years * Year
    BY <2>2 DEF Year
  <2> HIDE DEF Year
  <2>4. QED BY <2>1, <2>3, DateIsBetween
<1>5. ContentErrors(doc) = EmiratesIdErrors(doc)
  BY <1>2 DEF ContentErrors
<1>6. ASSUME p.nationality = "Emirati" PROVE ~Before(Day(doc.expiry), 0)
  <2>1. validity = 10
    BY <1>6 DEF Validity
  <2>2. doc.expiry.day = issued + validity * Year
    BY <1>2 DEF Written
  <2>3. issued + validity * Year >= 0
    BY <1>4, <2>1 DEF Year
  <2>4. CASE Usable(doc.expiry)
    BY <2>2, <2>3, <2>4, <1>4, <2>1 DEF Before, Day, Year
  <2>5. CASE ~Usable(doc.expiry)
    BY <2>5 DEF Before, Day, Usable
  <2>6. QED BY <2>4, <2>5
<1>7. EmiratesIdErrors(doc) \subseteq (IF p.nationality = "Emirati" THEN {} ELSE {"expired"})
  BY <1>2, <1>6 DEF EmiratesIdErrors, IsProfile
<1>8. QED BY <1>2, <1>3, <1>5, <1>7

(* A statement: every salary in it is the profile's, and once its balances *)
(* reconcile there is no error.                                            *)
LEMMA SalariesAreTheProfiles ==
  ASSUME NEW p, NEW txns \in Transactions(p), NEW k \in DOMAIN txns,
         txns[k].category = "salary"
  PROVE  txns[k].amount = p.salary
<1>1. PICK wps \in WpsTransactions(p), rent \in RentTransactions(p),
           regular \in UNION { RegularTransactions(c) : c \in Categories } :
        txns = wps \o rent \o regular
  BY DEF Transactions
<1>2. IsSeq(wps) /\ \A i \in DOMAIN wps : wps[i].amount = p.salary
  <2>1. PICK n \in {0} \cup RandInt(1, 3) : wps = [i \in 1..n |-> Transaction("salary", p.salary)]
    BY DEF WpsTransactions
  <2>2. n \in Nat
    BY DEF RandInt
  <2>3. QED BY <2>1, <2>2, FunctionIsSeq DEF Transaction
<1>3. IsSeq(rent) /\ \A i \in DOMAIN rent : rent[i].category = "rent"
  <2>1. CASE rent = <<>>
    BY <2>1, EmptyIsSeq
  <2>2. CASE \E n \in RandInt(1, 3) : rent = [i \in 1..n |-> Transaction("rent", -p.rent)]
    <3>1. PICK n \in RandInt(1, 3) : rent = [i \in 1..n |-> Transaction("rent", -p.rent)]
      BY <2>2
    <3>2. n \in Nat
      BY DEF RandInt
    <3>3. QED BY <3>1, <3>2, FunctionIsSeq DEF Transaction
  <2>3. QED BY <2>1, <2>2 DEF RentTransactions
<1>4. IsSeq(regular) /\ \A i \in DOMAIN regular : regular[i].category # "salary"
  <2>1. PICK c \in Categories : regular \in RegularTransactions(c)
    OBVIOUS
  <2>2. c \in Seq(TransactionCategories)
    BY DrawnAssumption
  <2>3. PICK amounts :
          regular = [i \in DOMAIN c |-> Transaction(c[i], amounts[c[i]])]
    BY <2>1 DEF RegularTransactions
  <2>4. DOMAIN c = 1..Len(c) /\ Len(c) \in Nat /\ \A i \in DOMAIN c : c[i] \in TransactionCategories
    BY <2>2
  <2>5. IsSeq(regular) /\ DOMAIN regular = DOMAIN c
    BY <2>3, <2>4, FunctionIsSeq
  <2>6. \A i \in DOMAIN c : regular[i].category = c[i]
    BY <2>3 DEF Transaction
  <2>7. QED BY <2>4, <2>5, <2>6 DEF TransactionCategories
<1>5. IsSeq(wps \o rent) /\ txns = (wps \o rent) \o regular
  BY <1>1, <1>2, <1>3, ConcatIsSeq
<1>6. k \in DOMAIN (wps \o rent) /\ txns[k] = (wps \o rent)[k]
  BY <1>4, <1>5, ConcatElements
<1>7. k \in DOMAIN wps /\ (wps \o rent)[k] = wps[k]
  <2>1. (wps \o rent)[k].category = "salary"
    BY <1>6
  <2>2. QED BY <1>2, <1>3, <1>6, <2>1, ConcatElements
<1>8. QED BY <1>2, <1>6, <1>7

LEMMA StatementFits ==
  ASSUME NEW p, NEW doc \in BankStatements(p), Reconciles(doc)
  PROVE  /\ doc.type = "bank_statement"
         /\ doc.wps \subseteq {p.salary}
         /\ RequiredFields("bank_statement") \subseteq doc.shows
         /\ ContentErrors(doc) = {}
<1>1. PICK txns \in Transactions(p), end \in RandInt(-15, -1), length \in RandInt(90, 180) :
        /\ doc.type = "bank_statement" /\ doc.shows = StatementShows /\ doc.currency = "AED"
        /\ doc.start = Written(end - length) /\ doc.end = Written(end)
        /\ doc.transactions = {end - length, end}
        /\ doc.wps = { txns[i].amount : i \in { j \in DOMAIN txns : txns[j].category = "salary" } }
  BY DEF BankStatements
<1>2. end \in Int /\ length \in Int /\ end <= -1 /\ length >= 90
  BY DEF RandInt
<1>3. doc.wps \subseteq {p.salary}
  BY <1>1, SalariesAreTheProfiles
<1>4. RequiredFields("bank_statement") \subseteq doc.shows
  BY <1>1 DEF RequiredFields, StatementShows
<1>5. ContentErrors(doc) = BankStatementErrors(doc)
  BY <1>1 DEF ContentErrors
<1>6. InOrder(Day(doc.start), Day(doc.end))
  <2>1. doc.start.day = end - length /\ doc.end.day = end
    BY <1>1 DEF Written
  <2>2. Usable(Day(doc.start)) => Day(doc.start) = end - length
    BY <2>1 DEF Day, Usable
  <2>3. Usable(Day(doc.end)) => Day(doc.end) = end
    BY <2>1 DEF Day, Usable
  <2>4. QED BY <1>2, <2>2, <2>3 DEF InOrder
<1>7. \A t \in doc.transactions : ~Before(0, t)
  BY <1>1, <1>2 DEF Before
<1>8. BankStatementErrors(doc) = {}
  BY <1>1, <1>6, <1>7 DEF BankStatementErrors
<1>9. QED BY <1>1, <1>3, <1>4, <1>5, <1>8

(* Facilities: balances that are not negative, of the known types.         *)
Facility ==
  [type : FacilityTypes, status : {"active", "closed"}, balance : Nat]

LEMMA BalancesAreAmounts ==
  ASSUME NEW type \in FacilityTypes
  PROVE  ActiveBalance(type) \subseteq Nat /\ ClosedBalance(type) \subseteq Nat
<1>1. \A low \in Nat, high \in Nat : Uniform(low, high) \subseteq Nat
  BY DEF Uniform
<1>2. \A low \in Nat, high \in Nat : low * AED \in Nat /\ high * AED \in Nat
  BY DEF AED
<1>3. \A low \in Nat, high \in Nat : Uniform(low * AED, high * AED) \subseteq Nat
  BY <1>1, <1>2
<1>4. \A high \in Nat : Uniform(0, high * AED) \subseteq Nat
  BY <1>1, <1>2
<1>5. ActiveBalance(type) \subseteq Nat
  BY <1>3, <1>4 DEF ActiveBalance, FacilityTypes
<1>6. ClosedBalance(type) \subseteq Nat
  BY <1>3 DEF ClosedBalance, FacilityTypes
<1>7. QED BY <1>5, <1>6

LEMMA FacilitiesAre == ASSUME NEW f \in Facilities PROVE f \in Seq(Facility)
<1>1. ASSUME NEW types \in Seq(FacilityTypes), NEW owed \in Owed(types, ActiveBalance, "active")
      PROVE  owed \in Seq(Facility)
  <2>1. PICK b : /\ \A t \in ToSet(types) : b[t] \in ActiveBalance(t)
                 /\ owed = [i \in DOMAIN types |-> [type |-> types[i], status |-> "active",
                                                    balance |-> b[types[i]]]]
    BY DEF Owed
  <2>2. DOMAIN types = 1..Len(types) /\ Len(types) \in Nat
        /\ \A i \in DOMAIN types : types[i] \in FacilityTypes /\ types[i] \in ToSet(types)
    BY DEF ToSet
  <2>3. \A i \in DOMAIN types : b[types[i]] \in Nat
    BY <2>1, <2>2, BalancesAreAmounts
  <2>4. owed \in [1..Len(types) -> Facility]
    BY <2>1, <2>2, <2>3 DEF Facility
  <2>5. QED BY <2>2, <2>4
<1>2. ASSUME NEW types \in Seq(FacilityTypes), NEW owed \in Owed(types, ClosedBalance, "closed")
      PROVE  owed \in Seq(Facility)
  <2>1. PICK b : /\ \A t \in ToSet(types) : b[t] \in ClosedBalance(t)
                 /\ owed = [i \in DOMAIN types |-> [type |-> types[i], status |-> "closed",
                                                    balance |-> b[types[i]]]]
    BY DEF Owed
  <2>2. DOMAIN types = 1..Len(types) /\ Len(types) \in Nat
        /\ \A i \in DOMAIN types : types[i] \in FacilityTypes /\ types[i] \in ToSet(types)
    BY DEF ToSet
  <2>3. \A i \in DOMAIN types : b[types[i]] \in Nat
    BY <2>1, <2>2, BalancesAreAmounts
  <2>4. owed \in [1..Len(types) -> Facility]
    BY <2>1, <2>2, <2>3 DEF Facility
  <2>5. QED BY <2>2, <2>4
<1>3. PICK active \in UNION { Owed(t, ActiveBalance, "active") : t \in ActiveTypes },
           closed \in UNION { Owed(t, ClosedBalance, "closed") : t \in ClosedTypes } :
        f = active \o closed
  BY DEF Facilities
<1>4. active \in Seq(Facility)
  BY <1>1, DrawnAssumption
<1>5. closed \in Seq(Facility)
  BY <1>2, DrawnAssumption
<1>6. QED BY <1>3, <1>4, <1>5

(* A report: what Gate 1 sums differs from its total only when something   *)
(* is owed on a closed facility.                                           *)
LEMMA ReportFits ==
  ASSUME NEW p, NEW doc \in CreditReports(p)
  PROVE  /\ doc.type = "credit_report"
         /\ doc.name = p.name /\ doc.id = p.id
         /\ doc.records \in Seq(Facility)
         /\ RequiredFields("credit_report") \subseteq doc.shows
         /\ ContentErrors(doc) \subseteq {"facilities"}
         /\ (\A i \in DOMAIN doc.records :
               ~(doc.records[i].status = "closed" /\ doc.records[i].balance > 0))
              => ContentErrors(doc) = {}
<1> DEFINE Owes(facilities) ==
             Total([i \in DOMAIN facilities |-> IF TRUE THEN facilities[i].balance ELSE 0])
           OwesActive(facilities) ==
             Total([i \in DOMAIN facilities |->
                      IF facilities[i].status = "active" THEN facilities[i].balance ELSE 0])
<1>0. PICK score \in RandInt(300, 900), facilities \in Facilities :
        doc = CreditReport(p, score, facilities)
  BY DEF CreditReports
<1>1. /\ doc.type = "credit_report" /\ doc.shows = ReportShows
      /\ doc.name = p.name /\ doc.id = p.id
      /\ doc.score = score /\ doc.future = FALSE
      /\ doc.outstanding = Owes(facilities) /\ doc.facilities = OwesActive(facilities)
      /\ doc.records = facilities
  BY <1>0 DEF CreditReport, Outstanding
<1> HIDE DEF Owes, OwesActive
<1>2. facilities \in Seq(Facility)
  BY FacilitiesAre
<1>3. RequiredFields("credit_report") \subseteq doc.shows
  BY <1>1 DEF RequiredFields, ReportShows
<1>4. ContentErrors(doc) = CreditReportErrors(doc)
  BY <1>1 DEF ContentErrors
<1>5. ContentErrors(doc) \subseteq {"facilities"}
  <2>1. score \in 300..900 /\ score # Garbled
    BY MarkersAssumption DEF RandInt
  <2>2. QED BY <1>1, <1>4, <2>1 DEF CreditReportErrors
<1>6. ASSUME \A i \in DOMAIN facilities :
               ~(facilities[i].status = "closed" /\ facilities[i].balance > 0)
      PROVE  ContentErrors(doc) = {}
  <2> DEFINE all == [i \in DOMAIN facilities |-> IF TRUE THEN facilities[i].balance ELSE 0]
             active == [i \in DOMAIN facilities |->
                          IF facilities[i].status = "active" THEN facilities[i].balance ELSE 0]
  <2>1. \A i \in DOMAIN facilities :
          facilities[i].status = "active" \/ facilities[i].balance = 0
    <3>1. \A i \in DOMAIN facilities : facilities[i] \in Facility
      BY <1>2
    <3>2. QED BY <1>6, <3>1 DEF Facility
  <2>2. all = active
    BY <2>1
  <2>3. doc.outstanding = Total(all) /\ doc.facilities = Total(active)
    BY <1>1 DEF Owes, OwesActive
  <2>4. doc.facilities = doc.outstanding
    BY <2>2, <2>3
  <2>5. "facilities" \notin CreditReportErrors(doc)
    BY <1>1, <2>4 DEF CreditReportErrors
  <2>6. QED BY <1>4, <1>5, <2>5
<1>7. QED BY <1>1, <1>2, <1>3, <1>5, <1>6

(* What is owed on cards and on loans is what is owed on either, but for   *)
(* less than a fils of rounding each.                                      *)
CardsAndLoans(facilities) ==
  Total([i \in DOMAIN facilities |-> IF facilities[i].type \in {"credit_card", "personal_loan"}
                                     THEN facilities[i].balance ELSE 0])

LEMMA DebtsAddUp ==
  ASSUME NEW facilities \in Seq(Facility)
  PROVE  LET sum == Debt(facilities, "credit_card") + Debt(facilities, "personal_loan")
             owed == CardsAndLoans(facilities)
         IN  /\ Debt(facilities, "credit_card") \in Nat
             /\ Debt(facilities, "personal_loan") \in Nat
             /\ owed \in Nat /\ sum - owed <= 10 /\ owed - sum <= 10
<1> DEFINE cards == [i \in DOMAIN facilities |->
                       IF facilities[i].type = "credit_card" THEN facilities[i].balance ELSE 0]
           loans == [i \in DOMAIN facilities |->
                       IF facilities[i].type = "personal_loan" THEN facilities[i].balance ELSE 0]
           both  == [i \in DOMAIN facilities |->
                       IF facilities[i].type \in {"credit_card", "personal_loan"}
                       THEN facilities[i].balance ELSE 0]
           n == Len(facilities)
<1>1. n \in Nat /\ DOMAIN facilities = 1..n /\ \A i \in 1..n : facilities[i].balance \in Nat
  <2>1. n \in Nat /\ DOMAIN facilities = 1..n /\ \A i \in 1..n : facilities[i] \in Facility
    OBVIOUS
  <2> HIDE DEF n
  <2>2. QED BY <2>1 DEF Facility
<1> HIDE DEF n
<1>2. /\ cards \in Seq(Nat) /\ Len(cards) = n /\ loans \in Seq(Nat) /\ Len(loans) = n
      /\ both \in Seq(Nat) /\ Len(both) = n
  <2>1. cards \in [1..n -> Nat] /\ loans \in [1..n -> Nat] /\ both \in [1..n -> Nat]
    BY <1>1
  <2> HIDE DEF cards, loans, both
  <2>2. QED BY <1>1, <2>1, FunctionIsIn
<1>3. \A i \in 1..n : both[i] = cards[i] + loans[i]
  BY <1>1
<1>4. /\ Total(both) = Total(cards) + Total(loans)
      /\ Total(cards) \in Nat /\ Total(loans) \in Nat
  <2> HIDE DEF cards, loans, both
  <2>1. cards \in Seq(Int) /\ loans \in Seq(Int) /\ both \in Seq(Int)
    BY <1>2
  <2>2. QED BY <1>2, <1>3, <2>1, TotalOfSums, TotalOfAmounts
<1>5. /\ Debt(facilities, "credit_card") = Quantized(Total(cards))
      /\ Debt(facilities, "personal_loan") = Quantized(Total(loans))
  BY DEF Debt, Outstanding
<1>6. CardsAndLoans(facilities) = Total(both)
  BY DEF CardsAndLoans
<1> DEFINE c == Debt(facilities, "credit_card")
           l == Debt(facilities, "personal_loan")
           o == CardsAndLoans(facilities)
<1> HIDE DEF cards, loans, both, c, l, o
<1>7. c = Quantized(Total(cards)) /\ l = Quantized(Total(loans)) /\ o = Total(both)
  BY <1>5, <1>6 DEF c, l, o
<1>8. c \in Nat /\ l \in Nat /\ o \in Nat /\ (c + l) - o <= 10 /\ o - (c + l) <= 10
  <2> DEFINE x == Total(cards)
             y == Total(loans)
             qx == Quantized(x)
             qy == Quantized(y)
  <2>1. x \in Int /\ x >= 0 /\ y \in Int /\ y >= 0 /\ o = x + y /\ c = qx /\ l = qy
    BY <1>4, <1>7
  <2> HIDE DEF x, y
  <2>2. qx \in Int /\ qx - x <= 5 /\ x - qx <= 5 /\ qx >= 0
    BY <2>1, QuantizedIsNear
  <2>3. qy \in Int /\ qy - y <= 5 /\ y - qy <= 5 /\ qy >= 0
    BY <2>1, QuantizedIsNear
  <2> HIDE DEF qx, qy
  <2>4. QED BY <2>1, <2>2, <2>3
<1>9. QED BY <1>8 DEF c, l, o

(* No position starts in the future.                                       *)
LEMMA StartsArePast ==
  ASSUME NEW adult \in Int, adult <= 0, NEW n \in Nat, NEW s, IsStarts(s, adult, n)
  PROVE  \A i \in 1..n : s[i] \in Int /\ s[i] <= 0
<1> DEFINE T == { k \in 0..n : k = 0 \/ s[k] <= 0 }
<1>1. \A i \in 1..n : s[i] \in Int
  BY DEF IsStarts
<1>2. 0 \in T
  OBVIOUS
<1>3. ASSUME NEW k \in 1..n, k - 1 \in T PROVE k \in T
  <2>1. s[k] \in RandomDateBetween(adult, IF k = 1 THEN -30 ELSE s[k - 1] - 60)
    BY DEF IsStarts
  <2>2. CASE k = 1
    <3>1. s[k] \in RandomDateBetween(adult, -30)
      BY <2>1, <2>2
    <3>2. s[k] <= adult \/ s[k] <= -30
      BY <3>1, DateIsBetween
    <3>3. QED BY <1>1, <3>2
  <2>3. CASE k # 1
    <3>1. k - 1 \in 1..n /\ s[k - 1] \in Int /\ s[k - 1] <= 0
      BY <1>1, <1>3, <2>3
    <3>2. s[k - 1] - 60 \in Int /\ s[k] \in RandomDateBetween(adult, s[k - 1] - 60)
      BY <2>1, <2>3, <3>1
    <3>3. s[k] <= adult \/ s[k] <= s[k - 1] - 60
      BY <3>2, DateIsBetween
    <3>4. QED BY <1>1, <3>1, <3>3
  <2>4. QED BY <2>2, <2>3
<1> HIDE DEF T
<1>4. T = 0..n
  BY <1>2, <1>3, ReachesAll DEF T
<1>5. \A k \in 1..n : k \in T
  BY <1>4
<1>6. QED BY <1>1, <1>5 DEF T

(* A position of a resume is the current one, or ended and began in time:  *)
(* it began before it ended, unless that was within sixty days of eighteen.*)
LEMMA PositionsAre ==
  ASSUME NEW p, IsProfile(p), NEW work \in WorkExperience(p), NEW q \in ToSet(work)
  PROVE  /\ q.title = p.occupation /\ q.current = (q.end = Absent)
         /\ \E start \in Int : start <= 0 /\ q.start = Written(start)
         /\ \/ q.end = Absent
            \/ \E start, end \in Int :
                 /\ q.start = Written(start) /\ q.end = Written(end) /\ end <= 0
                 /\ start < end \/ end < Eighteen(p) + 60
<1> DEFINE adult == Eighteen(p)
<1>1. adult \in Int /\ adult <= 0
  <2>1. Year \in Int /\ adult = p.birth + 18 * Year /\ p.birth \in Int /\ p.birth <= -18 * Year
    BY DEF Eighteen, IsProfile, Year
  <2> HIDE DEF adult
  <2>2. QED BY <2>1
<1> HIDE DEF adult
<1>2. PICK n \in Positions : \E starts \in Starts(adult, n)[n] :
        work = [i \in 1..n |->
                  IF i = n
                  THEN Position(p, starts[1], Absent, p.employer)
                  ELSE Position(p, starts[i + 1], Written(starts[i]), "Elsewhere")]
  BY DEF WorkExperience, adult
<1>3. PICK s \in Starts(adult, n)[n] :
        work = [i \in 1..n |->
                  IF i = n
                  THEN Position(p, s[1], Absent, p.employer)
                  ELSE Position(p, s[i + 1], Written(s[i]), "Elsewhere")]
  BY <1>2
<1>4. n \in Nat /\ n >= 1
  BY DrawnAssumption
<1>5. IsStarts(s, adult, n)
  BY <1>1, <1>4, StartsAre
<1>6. \A i \in 1..n : s[i] \in Int /\ s[i] <= 0
  BY <1>1, <1>4, <1>5, StartsArePast
<1>7. PICK i \in 1..n : q = work[i]
  BY <1>3 DEF ToSet
<1>8. CASE i = n
  <2>1. q = Position(p, s[1], Absent, p.employer)
    BY <1>3, <1>7, <1>8
  <2>2. s[1] \in Int /\ s[1] <= 0
    BY <1>4, <1>6
  <2>3. QED BY <2>1, <2>2 DEF Position
<1>9. CASE i # n
  <2>1. i \in 1..n /\ i + 1 \in 1..n /\ (i + 1) - 1 = i
    BY <1>4, <1>9
  <2>2. q = Position(p, s[i + 1], Written(s[i]), "Elsewhere")
    BY <1>3, <1>7, <1>9
  <2>3. s[i] \in Int /\ s[i] <= 0 /\ s[i + 1] \in Int /\ s[i + 1] <= 0
    BY <1>6, <2>1
  <2>4. s[i + 1] \in RandomDateBetween(adult, s[i] - 60) /\ s[i] - 60 \in Int
    BY <1>5, <2>1, <2>3 DEF IsStarts
  <2>5. s[i + 1] <= adult \/ s[i + 1] <= s[i] - 60
    BY <1>1, <2>4, DateIsBetween
  <2>6. s[i + 1] < s[i] \/ s[i] < adult + 60
    BY <1>1, <2>3, <2>5
  <2>7. q.title = p.occupation /\ q.start = Written(s[i + 1]) /\ q.end = Written(s[i])
        /\ q.current = (q.end = Absent)
    BY <2>2 DEF Position
  <2>8. QED BY <2>3, <2>6, <2>7 DEF adult
<1>10. QED BY <1>8, <1>9

LEMMA ResumeFits ==
  ASSUME NEW p, IsProfile(p), NEW doc \in Resumes(p)
  PROVE  /\ doc.type = "resume" /\ doc.birth = Absent /\ doc.employer = p.employer
         /\ \A q \in doc.positions : q.title = p.occupation
         /\ RequiredFields("resume") \subseteq doc.shows
         /\ ContentErrors(doc) \subseteq
              { <<q, "order">> : q \in { r \in doc.positions :
                                           ~r.current /\ r.end.day < Eighteen(p) + 60 } }
<1>1. PICK work \in WorkExperience(p) :
        /\ doc.type = "resume" /\ doc.shows = ResumeShows /\ doc.birth = Absent
        /\ doc.positions = ToSet(work) /\ doc.employer = p.employer
  BY DEF Resumes
<1>2. \A q \in doc.positions : q.title = p.occupation
  BY <1>1, PositionsAre
<1>3. RequiredFields("resume") \subseteq doc.shows
  BY <1>1 DEF RequiredFields, ResumeShows
<1>4. ContentErrors(doc) = ResumeErrors(doc)
  BY <1>1 DEF ContentErrors
<1>5. ASSUME NEW q \in doc.positions
      PROVE  /\ ~Before(0, Day(q.start)) /\ ~Before(0, Day(q.end)) /\ ~(q.current /\ Usable(q.end))
             /\ \/ InOrder(Day(q.start), Day(q.end))
                \/ ~q.current /\ q.end.day < Eighteen(p) + 60
  <2>1. q \in ToSet(work)
    BY <1>1
  <2>2. PICK start \in Int : start <= 0 /\ q.start = Written(start)
    BY <2>1, PositionsAre
  <2>3. Day(q.start) = start \/ ~Usable(Day(q.start))
    BY <2>2 DEF Day, Written, Usable
  <2>4. ~Before(0, Day(q.start))
    BY <2>2, <2>3 DEF Before
  <2>5. q.current = (q.end = Absent)
    BY <2>1, PositionsAre
  <2>6. CASE q.end = Absent
    <3>1. Day(q.end) = Garbled /\ ~Usable(q.end) /\ ~Usable(Garbled)
      BY <2>6 DEF Day, Usable
    <3>2. QED BY <2>4, <3>1 DEF Before, InOrder
  <2>7. CASE q.end # Absent
    <3>1. PICK first, end \in Int :
            /\ q.start = Written(first) /\ q.end = Written(end) /\ end <= 0
            /\ first < end \/ end < Eighteen(p) + 60
      BY <2>1, <2>7, PositionsAre
    <3>2. q.end.day = end
      BY <3>1 DEF Written
    <3>3. Day(q.end) = end \/ ~Usable(Day(q.end))
      BY <3>2 DEF Day, Usable
    <3>4. Day(q.start) = first \/ ~Usable(Day(q.start))
      BY <3>1 DEF Day, Written, Usable
    <3>5. ~Before(0, Day(q.end))
      BY <3>1, <3>3 DEF Before
    <3>6. ~q.current
      BY <2>5, <2>7
    <3>7. InOrder(Day(q.start), Day(q.end)) \/ end < Eighteen(p) + 60
      BY <3>1, <3>3, <3>4 DEF InOrder
    <3>8. QED BY <2>4, <3>2, <3>5, <3>6, <3>7
  <2>8. QED BY <2>6, <2>7
<1>6. ASSUME NEW x \in ResumeErrors(doc)
      PROVE  \E q \in doc.positions :
               x = <<q, "order">> /\ ~q.current /\ q.end.day < Eighteen(p) + 60
  <2>1. PICK q \in doc.positions, what \in {"order", "future_end", "future_start", "current"} :
          x = <<q, what>>
    BY <1>6 DEF ResumeErrors
  <2>2. /\ what = "order" => ~InOrder(Day(q.start), Day(q.end))
        /\ what = "future_end" => Before(0, Day(q.end))
        /\ what = "future_start" => Before(0, Day(q.start))
        /\ what = "current" => q.current /\ Usable(q.end)
    BY <1>6, <2>1 DEF ResumeErrors
  <2>3. what = "order" /\ ~InOrder(Day(q.start), Day(q.end))
    BY <1>5, <2>2
  <2>4. QED BY <1>5, <2>1, <2>3
<1>7. QED BY <1>1, <1>2, <1>3, <1>4, <1>6

(* A sheet: assets and debts that are not negative and add up, a recent    *)
(* date, and the debts of the facilities it was made from.                 *)
LEMMA SheetFits ==
  ASSUME NEW p, NEW facilities \in Seq(Facility), NEW doc \in AssetsLiabilities(p, facilities)
  PROVE  /\ doc.type = "assets_liabilities"
         /\ doc.cards = Debt(facilities, "credit_card")
         /\ doc.loans = Debt(facilities, "personal_loan")
         /\ RequiredFields("assets_liabilities") \subseteq doc.shows
         /\ ContentErrors(doc) = {}
<1> DEFINE cards == Debt(facilities, "credit_card")
           loans == Debt(facilities, "personal_loan")
           owner == IF p.housing = "owned" THEN 1 ELSE 0
<1>1. PICK held \in RandomDecimal(26000, 1100000), owed \in RandomDecimal(0, 70000),
           day \in RandInt(-180, 0) :
        doc = Sheet(p, held + owner * 500000 * AED, owed + owner * 200000 * AED, cards, loans, day)
  BY DEF AssetsLiabilities
<1>2. cards \in Nat /\ loans \in Nat
  BY DebtsAddUp
<1>3. held \in Nat /\ owed \in Nat /\ day \in Int /\ day >= -180
  <2>1. RandomDecimal(26000, 1100000) \subseteq Nat /\ RandomDecimal(0, 70000) \subseteq Nat
    BY DecimalsAreAmounts
  <2>2. day \in -180..0
    BY DEF RandInt
  <2>3. QED BY <2>1, <2>2
<1> HIDE DEF cards, loans
<1>4. PICK assets \in Nat, liabilities \in Nat :
        doc = Sheet(p, assets, liabilities, cards, loans, day)
  <2> DEFINE a == held + owner * 500000 * AED
             l == owed + owner * 200000 * AED
  <2>1. a \in Nat /\ l \in Nat
    BY <1>3 DEF AED
  <2> HIDE DEF a, l
  <2>2. doc = Sheet(p, a, l, cards, loans, day)
    BY <1>1 DEF a, l
  <2>3. QED BY <2>1, <2>2
<1>5. /\ doc.type = "assets_liabilities" /\ doc.shows = SheetShows
      /\ doc.assets = assets /\ doc.categories = assets
      /\ doc.liabilities = liabilities + cards + loans
      /\ doc.netWorth = assets - (liabilities + cards + loans)
      /\ doc.cards = cards /\ doc.loans = loans /\ doc.statement = Written(day)
  BY <1>4 DEF Sheet
<1>6. RequiredFields("assets_liabilities") \subseteq doc.shows
  BY <1>5 DEF RequiredFields, SheetShows
<1>7. ContentErrors(doc) = AssetsLiabilitiesErrors(doc)
  BY <1>5 DEF ContentErrors
<1>8. ~Before(Day(doc.statement), -180)
  <2>1. doc.statement.day = day
    BY <1>5 DEF Written
  <2>2. Usable(Day(doc.statement)) => Day(doc.statement) = day
    BY <2>1 DEF Day, Usable
  <2>3. QED BY <1>3, <2>2 DEF Before
<1>9. AssetsLiabilitiesErrors(doc) = {}
  <2>1. ~(doc.assets < 0) /\ ~(doc.liabilities < 0)
        /\ doc.assets - doc.liabilities = doc.netWorth /\ doc.categories = doc.assets
    BY <1>2, <1>5
  <2>2. QED BY <1>8, <2>1 DEF AssetsLiabilitiesErrors
<1>10. QED BY <1>5, <1>6, <1>7, <1>9 DEF cards, loans

(* A form: the total of its income is the sum.                             *)
LEMMA FormFits ==
  ASSUME NEW p, NEW doc, doc = ApplicationForm(p)
  PROVE  /\ doc.type = "application_form"
         /\ doc.name = p.name /\ doc.id = p.id /\ doc.birth = p.birth /\ doc.address = p.address
         /\ doc.salary = p.salary /\ doc.other = p.other /\ doc.income = p.salary + p.other
         /\ doc.employer = p.employer /\ doc.occupation = p.occupation
         /\ doc.family = p.family /\ doc.dependents = p.dependents
         /\ RequiredFields("application_form") \subseteq doc.shows
         /\ ContentErrors(doc) = {}
<1>1. /\ doc.type = "application_form" /\ doc.shows = FormShows
      /\ doc.name = p.name /\ doc.id = p.id /\ doc.birth = p.birth /\ doc.address = p.address
      /\ doc.salary = p.salary /\ doc.other = p.other /\ doc.income = p.salary + p.other
      /\ doc.employer = p.employer /\ doc.occupation = p.occupation
      /\ doc.family = p.family /\ doc.dependents = p.dependents
  BY DEF ApplicationForm
<1>2. RequiredFields("application_form") \subseteq doc.shows
  BY <1>1 DEF RequiredFields, FormShows
<1>3. ContentErrors(doc) = ApplicationFormErrors(doc)
  BY <1>1 DEF ContentErrors
<1>4. ApplicationFormErrors(doc) = {}
  BY <1>1 DEF ApplicationFormErrors
<1>5. QED BY <1>1, <1>2, <1>3, <1>4

(* The documents of a package, each made for its profile, a sheet from the *)
(* report's facilities.                                                    *)
MadeFor(pkg) ==
  /\ IsProfile(pkg["profile"])
  /\ "emirates_id" \in DOMAIN pkg => pkg["emirates_id"] \in EmiratesIds(pkg["profile"])
  /\ "bank_statement" \in DOMAIN pkg =>
       pkg["bank_statement"] \in BankStatements(pkg["profile"]) /\ Reconciles(pkg["bank_statement"])
  /\ "credit_report" \in DOMAIN pkg => pkg["credit_report"] \in CreditReports(pkg["profile"])
  /\ "resume" \in DOMAIN pkg => pkg["resume"] \in Resumes(pkg["profile"])
  /\ "assets_liabilities" \in DOMAIN pkg =>
       /\ "credit_report" \in DOMAIN pkg
       /\ pkg["assets_liabilities"] \in
            AssetsLiabilities(pkg["profile"], pkg["credit_report"].records)
  /\ "application_form" \in DOMAIN pkg =>
       pkg["application_form"] = ApplicationForm(pkg["profile"])

(* The rules that compare what documents say of the applicant.             *)
LEMMA IdentitiesAgree ==
  ASSUME NEW pkg, MadeFor(pkg), DocumentTypes \subseteq DOMAIN pkg
  PROVE  IdentityConsistent(pkg) /\ NamesReconcilable(pkg) /\ BirthConsistent(pkg)
<1> DEFINE p == pkg["profile"]
<1>1. /\ IsProfile(p) /\ pkg["emirates_id"] \in EmiratesIds(p)
      /\ pkg["credit_report"] \in CreditReports(p) /\ pkg["resume"] \in Resumes(p)
      /\ pkg["application_form"] = ApplicationForm(p)
  BY DEF MadeFor, DocumentTypes
<1>2. /\ pkg["emirates_id"].name = p.name /\ pkg["emirates_id"].id = p.id
      /\ pkg["emirates_id"].birth = p.birth
  BY <1>1, CardFits
<1>3. pkg["credit_report"].name = p.name /\ pkg["credit_report"].id = p.id
  BY <1>1, ReportFits
<1>4. /\ pkg["application_form"].name = p.name /\ pkg["application_form"].id = p.id
      /\ pkg["application_form"].birth = p.birth
  BY <1>1, FormFits
<1>5. pkg["resume"].birth = Absent
  BY <1>1, ResumeFits
<1>6. Sources(pkg) = {"emirates_id", "credit_report", "application_form"}
      /\ Sources(pkg) \subseteq DOMAIN pkg
  BY DEF Sources, DocumentTypes
<1>7. p.id # Absent /\ p.id.number = 1
  BY <1>1, MarkersAssumption DEF IsProfile
<1> HIDE DEF p
<1>8. IdentityConsistent(pkg)
  <2>1. \A t \in Sources(pkg) : pkg[t].id = p.id
    BY <1>2, <1>3, <1>4, <1>6
  <2>2. Numbers(pkg, Sources(pkg)) = {1}
    BY <1>6, <1>7, <2>1 DEF Numbers, Among
  <2>3. QED BY <2>2, FS_Singleton DEF IdentityConsistent
<1>9. NamesReconcilable(pkg)
  <2>1. { pkg[t].name : t \in Sources(pkg) } \cup {pkg["profile"].name} = {p.name}
    BY <1>2, <1>3, <1>4, <1>6 DEF p
  <2>2. p.name = {"given", "family"}
    BY <1>1 DEF IsProfile
  <2>3. p.name \cap p.name = p.name /\ p.name \cup p.name = p.name
    OBVIOUS
  <2>4. Cardinality(p.name) = 2
    <3>1. IsFiniteSet({"given"}) /\ Cardinality({"given"}) = 1
      BY FS_Singleton
    <3>2. Cardinality({"given"} \cup {"family"}) = 1 + 1
      BY <3>1, FS_AddElement
    <3>3. {"given"} \cup {"family"} = p.name
      BY <2>2
    <3>4. QED BY <3>2, <3>3
  <2>5. Similarity(p.name, p.name) = 100
    <3>1. Similarity(p.name, p.name) = (100 * Cardinality(p.name)) \div Cardinality(p.name)
      BY <2>3 DEF Similarity
    <3>2. QED BY <2>4, <3>1
  <2>6. QED BY <2>1, <2>5 DEF NamesReconcilable, AlikeEnough
<1>10. BirthConsistent(pkg)
  <2>1. \A t \in Among(pkg, BirthDocuments) : pkg[t].birth \in {p.birth, Absent}
    BY <1>2, <1>4, <1>5 DEF Among, BirthDocuments
  <2>2. Births(pkg, BirthDocuments) \cup {p.birth} = {p.birth}
    BY <2>1 DEF Births
  <2>3. QED BY <2>2, FS_Singleton DEF BirthConsistent, p
<1>11. QED BY <1>8, <1>9, <1>10

(* The rules about money.                                                  *)
LEMMA AmountsAgree ==
  ASSUME NEW pkg, MadeFor(pkg), DocumentTypes \subseteq DOMAIN pkg
  PROVE  SalaryMatchesWps(pkg) /\ IncomeAddsUp(pkg) /\ DebtsMatch(pkg)
<1> DEFINE p == pkg["profile"]
           records == pkg["credit_report"].records
<1>1. /\ p.salary \in Nat /\ p.other \in Nat
      /\ pkg["bank_statement"] \in BankStatements(p) /\ Reconciles(pkg["bank_statement"])
      /\ pkg["credit_report"] \in CreditReports(p)
      /\ pkg["assets_liabilities"] \in AssetsLiabilities(p, records)
      /\ pkg["application_form"] = ApplicationForm(p)
  BY DEF MadeFor, DocumentTypes, IsProfile
<1>2. pkg["bank_statement"].wps \subseteq {p.salary}
  BY <1>1, StatementFits
<1>3. /\ pkg["application_form"].salary = p.salary /\ pkg["application_form"].other = p.other
      /\ pkg["application_form"].income = p.salary + p.other
  BY <1>1, FormFits
<1>4. records \in Seq(Facility)
  BY <1>1, ReportFits
<1> HIDE DEF p, records
<1>5. /\ pkg["assets_liabilities"].cards = Debt(records, "credit_card")
      /\ pkg["assets_liabilities"].loans = Debt(records, "personal_loan")
  BY <1>1, <1>4, SheetFits
<1>6. SalaryMatchesWps(pkg)
  <2>1. Distance(p.salary, p.salary) <= p.salary \div 10
    BY <1>1 DEF Distance
  <2>2. QED BY <1>2, <1>3, <2>1 DEF SalaryMatchesWps
<1>7. IncomeAddsUp(pkg)
  BY <1>1, <1>3 DEF IncomeAddsUp, Distance, AED
<1>8. DebtsMatch(pkg)
  <2> DEFINE cards == Debt(records, "credit_card")
             loans == Debt(records, "personal_loan")
             owed == CardsAndLoans(records)
  <2>1. /\ cards \in Nat /\ loans \in Nat /\ owed \in Nat
        /\ (cards + loans) - owed <= 10 /\ owed - (cards + loans) <= 10
    BY <1>4, DebtsAddUp
  <2>2. DebtsMatch(pkg) <=>
          Distance(cards + loans, owed)
            <= (IF owed > 1000 * AED THEN owed \div 100 ELSE 10 * AED)
    BY <1>5 DEF DebtsMatch, Outstanding, CardsAndLoans, records
  <2> HIDE DEF cards, loans, owed
  <2>3. Distance(cards + loans, owed) <= 10
    BY <2>1 DEF Distance
  <2>4. Distance(cards + loans, owed) \in Int
    BY <2>1 DEF Distance
  <2>5. (IF owed > 1000 * AED THEN owed \div 100 ELSE 10 * AED) >= 10
    BY <2>1 DEF AED
  <2>6. (IF owed > 1000 * AED THEN owed \div 100 ELSE 10 * AED) \in Int
    BY <2>1 DEF AED
  <2> DEFINE tolerance == IF owed > 1000 * AED THEN owed \div 100 ELSE 10 * AED
             distance == Distance(cards + loans, owed)
  <2>7. distance \in Int /\ tolerance \in Int /\ distance <= 10 /\ tolerance >= 10
    BY <2>3, <2>4, <2>5, <2>6
  <2>8. DebtsMatch(pkg) <=> distance <= tolerance
    BY <2>2
  <2> HIDE DEF tolerance, distance
  <2>9. QED BY <2>7, <2>8
<1>9. QED BY <1>6, <1>7, <1>8

LEMMA RulesHold ==
  ASSUME NEW pkg, MadeFor(pkg), DocumentTypes \subseteq DOMAIN pkg
  PROVE  ValidateConsistency(pkg)
<1> DEFINE p == pkg["profile"]
<1>1. /\ IsProfile(p) /\ pkg["emirates_id"] \in EmiratesIds(p) /\ pkg["resume"] \in Resumes(p)
      /\ pkg["application_form"] = ApplicationForm(p)
  BY DEF MadeFor, DocumentTypes
<1>2. pkg["emirates_id"].address = p.address
  BY <1>1, CardFits
<1>3. pkg["resume"].employer = p.employer
      /\ \A q \in pkg["resume"].positions : q.title = p.occupation
  BY <1>1, ResumeFits
<1>4. /\ pkg["application_form"].address = p.address
      /\ pkg["application_form"].employer = p.employer
      /\ pkg["application_form"].occupation = p.occupation
      /\ pkg["application_form"].family = p.family
      /\ pkg["application_form"].dependents = p.dependents
  BY <1>1, FormFits
<1>5. EmployerConsistent(pkg)
  <2>1. {pkg["application_form"].employer, pkg["resume"].employer, pkg["profile"].employer}
          = {p.employer}
    BY <1>3, <1>4
  <2>2. Cardinality({p.employer}) = 1
    BY FS_Singleton
  <2> HIDE DEF p
  <2>3. QED BY <2>1, <2>2 DEF EmployerConsistent
<1>6. AddressConsistent(pkg)
  BY <1>2, <1>4 DEF AddressConsistent
<1>7. DependentsFit(pkg)
  BY <1>1, <1>4 DEF DependentsFit, IsProfile, Dependents
<1>8. CurrentJobMatches(pkg)
  BY <1>3, <1>4 DEF CurrentJobMatches
<1>9. QED BY <1>5, <1>6, <1>7, <1>8, IdentitiesAgree, AmountsAgree DEF ValidateConsistency

(* Gate 1 on each document of a package.                                   *)
LEMMA FaultsAreKnown ==
  ASSUME NEW pkg, MadeFor(pkg), NEW type \in DOMAIN pkg \cap DocumentTypes
  PROVE  /\ RequiredFields(type) \subseteq pkg[type].shows
         /\ ContentErrors(pkg[type]) \subseteq KnownFaults(type, pkg)
<1> DEFINE p == pkg["profile"]
           doc == pkg[type]
<1>1. IsProfile(p)
  BY DEF MadeFor
<1>2. CASE type = "emirates_id"
  <2>1. doc \in EmiratesIds(p)
    BY <1>2 DEF MadeFor
  <2>2. KnownFaults(type, pkg) = IF p.nationality = "Emirati" THEN {} ELSE {"expired"}
    BY <1>2 DEF KnownFaults
  <2>3. QED BY <1>1, <1>2, <2>1, <2>2, CardFits
<1>3. CASE type = "bank_statement"
  <2>1. doc \in BankStatements(p) /\ Reconciles(doc)
    BY <1>3 DEF MadeFor
  <2>2. QED BY <1>3, <2>1, StatementFits
<1>4. CASE type = "credit_report"
  <2>1. doc \in CreditReports(p)
    BY <1>4 DEF MadeFor
  <2>2. KnownFaults(type, pkg) =
          IF \E i \in DOMAIN doc.records :
               doc.records[i].status = "closed" /\ doc.records[i].balance > 0
          THEN {"facilities"} ELSE {}
    BY <1>4 DEF KnownFaults
  <2> HIDE DEF p, doc
  <2>3. ContentErrors(doc) \subseteq KnownFaults(type, pkg)
    BY <2>1, <2>2, ReportFits
  <2>4. RequiredFields("credit_report") \subseteq doc.shows
    BY <2>1, ReportFits
  <2>5. QED BY <1>4, <2>3, <2>4 DEF doc
<1>5. CASE type = "resume"
  <2>1. doc \in Resumes(p)
    BY <1>5 DEF MadeFor
  <2>2. KnownFaults(type, pkg) =
          { <<q, "order">> : q \in { r \in doc.positions :
                                       ~r.current /\ r.end.day < Eighteen(p) + 60 } }
    BY <1>5 DEF KnownFaults
  <2>3. QED BY <1>1, <1>5, <2>1, <2>2, ResumeFits
<1>6. CASE type = "assets_liabilities"
  <2>1. pkg["credit_report"] \in CreditReports(p)
        /\ doc \in AssetsLiabilities(p, pkg["credit_report"].records)
    BY <1>6 DEF MadeFor
  <2>2. pkg["credit_report"].records \in Seq(Facility)
    BY <2>1, ReportFits
  <2>3. QED BY <1>6, <2>1, <2>2, SheetFits
<1>7. CASE type = "application_form"
  <2>1. doc = ApplicationForm(p)
    BY <1>7 DEF MadeFor
  <2>2. QED BY <1>7, <2>1, FormFits
<1>8. QED BY <1>2, <1>3, <1>4, <1>5, <1>6, <1>7 DEF DocumentTypes

-----------------------------------------------------------------------------
(* The invariant of the package in hand.                                   *)

(* The documents of the CLI that are not still to be made are there.       *)
DoneIsMade ==
  next # <<>> =>
    /\ "profile" \in DOMAIN package
    /\ program = "cli" => DocumentTypes \subseteq ToSet(next) \cup DOMAIN package

(* Only the CLI makes a sheet, and the credit report before it.            *)
SheetAfterReport ==
  \A j \in DOMAIN next : next[j] = "assets_liabilities" =>
     program = "cli" /\ \A i \in DOMAIN next : next[i] = "credit_report" => i < j

MadeInv ==
  /\ DOMAIN package # {} => "profile" \in DOMAIN package /\ MadeFor(package)
  /\ DOMAIN package \subseteq {"profile"} \cup DocumentTypes
  /\ program = "test_data" => left \in Seq(ToSet(Scenarios))
  /\ DoneIsMade
  /\ SheetAfterReport
  /\ "assets_liabilities" \in DOMAIN package => "credit_report" \notin ToSet(next)

LEMMA InitMadeInv == PackagesInit => MadeInv
BY DEF PackagesInit, MadeInv, DoneIsMade, SheetAfterReport, ToSet

(* Nothing is left of the package of a batch that stops.                   *)
LEMMA StoppedMakesNothing == ASSUME Stopped PROVE MadeInv'
BY DEF Stopped, MadeInv, DoneIsMade, SheetAfterReport, ToSet

(* What is left after a step was left before it, in the same order.        *)
LEMMA StepTaken ==
  ASSUME PackagesInv, MadeInv, NEW step, Doing(step), next' = Tail(next), UNCHANGED program
  PROVE  /\ SheetAfterReport'
         /\ ToSet(next) \subseteq {step} \cup ToSet(next')
         /\ ToSet(next') \subseteq ToSet(next)
         /\ step = "assets_liabilities" => program = "cli" /\ "credit_report" \notin ToSet(next)
<1>1. /\ next \in Seq(Files) /\ next # <<>> /\ next[1] = step
      /\ Len(next) \in Nat \ {0} /\ DOMAIN next = 1..Len(next)
  BY DEF PackagesInv, Doing
<1>2. /\ DOMAIN next' = 1..(Len(next) - 1)
      /\ \A i \in 1..(Len(next) - 1) : next'[i] = next[i + 1]
  BY <1>1, HeadTailProperties
<1>3. SheetAfterReport'
  <2> SUFFICES ASSUME NEW j \in DOMAIN next', next'[j] = "assets_liabilities"
               PROVE  /\ program' = "cli"
                      /\ \A i \in DOMAIN next' : next'[i] = "credit_report" => i < j
    BY DEF SheetAfterReport
  <2>1. j + 1 \in DOMAIN next /\ next[j + 1] = "assets_liabilities"
    BY <1>1, <1>2
  <2>2. /\ program = "cli"
        /\ \A i \in DOMAIN next : next[i] = "credit_report" => i < j + 1
    BY <2>1 DEF MadeInv, SheetAfterReport
  <2>3. ASSUME NEW i \in DOMAIN next', next'[i] = "credit_report" PROVE i < j
    <3>1. i + 1 \in DOMAIN next /\ next[i + 1] = "credit_report"
      BY <1>1, <1>2, <2>3
    <3>2. i + 1 < j + 1 /\ i \in Int /\ j \in Int
      BY <1>1, <1>2, <2>2, <3>1
    <3>3. QED BY <3>2
  <2>4. QED BY <2>2, <2>3
<1>4. ASSUME NEW i \in 1..Len(next) PROVE next[i] \in {step} \cup ToSet(next')
  <2>1. CASE i = 1
    BY <1>1, <2>1
  <2>2. CASE i # 1
    <3>1. i - 1 \in 1..(Len(next) - 1) /\ (i - 1) + 1 = i
      BY <1>1, <2>2
    <3>2. i - 1 \in DOMAIN next' /\ next'[i - 1] = next[i]
      BY <1>2, <3>1
    <3>3. QED BY <3>2 DEF ToSet
  <2>3. QED BY <2>1, <2>2
<1>5. ToSet(next) \subseteq {step} \cup ToSet(next')
  BY <1>1, <1>4 DEF ToSet
<1>6. ToSet(next') \subseteq ToSet(next)
  <2>1. \A i \in DOMAIN next' : i + 1 \in DOMAIN next /\ next'[i] = next[i + 1]
    BY <1>1, <1>2
  <2>2. QED BY <2>1 DEF ToSet
<1>7. ASSUME step = "assets_liabilities"
      PROVE  program = "cli" /\ "credit_report" \notin ToSet(next)
  <2>1. 1 \in DOMAIN next /\ next[1] = "assets_liabilities"
    BY <1>1, <1>7
  <2>2. program = "cli" /\ \A i \in DOMAIN next : next[i] = "credit_report" => i < 1
    BY <2>1 DEF MadeInv, SheetAfterReport
  <2>3. QED BY <1>1, <2>2 DEF ToSet
<1>8. QED BY <1>3, <1>5, <1>6, <1>7

(* A document that fits joins the package.                                 *)
LEMMA PutMakes ==
  ASSUME PackagesInv, MadeInv, NEW type \in DocumentTypes, Doing(type),
         NEW doc, PutFile(type, doc),
         LET after == [t \in DOMAIN package \cup {type} |-> IF t = type THEN doc ELSE package[t]]
         IN  MadeFor(after)
  PROVE  MadeInv'
<1>1. ASSUME Stopped PROVE MadeInv'
  BY <1>1, StoppedMakesNothing
<1>2. ASSUME /\ package' = [t \in DOMAIN package \cup {type} |->
                              IF t = type THEN doc ELSE package[t]]
             /\ next' = Tail(next)
             /\ UNCHANGED <<program, left>>
      PROVE  MadeInv'
  <2>1. MadeFor(package')
    BY <1>2
  <2>2. DOMAIN package' = DOMAIN package \cup {type}
    BY <1>2
  <2>3. next # <<>>
    BY DEF Doing
  <2>4. "profile" \in DOMAIN package
    BY <2>3 DEF MadeInv, DoneIsMade
  <2>5. /\ SheetAfterReport'
        /\ ToSet(next) \subseteq {type} \cup ToSet(next') /\ ToSet(next') \subseteq ToSet(next)
        /\ type = "assets_liabilities" => "credit_report" \notin ToSet(next)
    BY <1>2, StepTaken
  <2>6. DoneIsMade'
    BY <1>2, <2>2, <2>3, <2>4, <2>5 DEF MadeInv, DoneIsMade
  <2>7. "assets_liabilities" \in DOMAIN package' => "credit_report" \notin ToSet(next')
    BY <2>2, <2>5 DEF MadeInv
  <2>8. QED BY <1>2, <2>1, <2>2, <2>4, <2>5, <2>6, <2>7 DEF MadeInv
<1>3. QED BY <1>1, <1>2 DEF PutFile

(* What is made fits the documents that are there: in particular, no sheet  *)
(* is there when the report is made that it is to be made from.            *)
LEMMA FitsIn ==
  ASSUME PackagesInv, MadeInv, NEW type \in DocumentTypes, Doing(type), NEW doc,
         type = "emirates_id" => doc \in EmiratesIds(package["profile"]),
         type = "bank_statement" =>
           doc \in BankStatements(package["profile"]) /\ Reconciles(doc),
         type = "credit_report" => doc \in CreditReports(package["profile"]),
         type = "resume" => doc \in Resumes(package["profile"]),
         type = "assets_liabilities" =>
           /\ "credit_report" \in DOMAIN package
           /\ doc \in AssetsLiabilities(package["profile"], package["credit_report"].records),
         type = "application_form" => doc = ApplicationForm(package["profile"])
  PROVE  MadeFor([t \in DOMAIN package \cup {type} |-> IF t = type THEN doc ELSE package[t]])
<1> DEFINE after == [t \in DOMAIN package \cup {type} |-> IF t = type THEN doc ELSE package[t]]
<1>1. /\ "profile" \in DOMAIN package /\ MadeFor(package)
  BY DEF Doing, MadeInv, DoneIsMade
<1>2. type = "credit_report" => "assets_liabilities" \notin DOMAIN package
  <2>1. next \in Seq(Files) /\ next # <<>> /\ next[1] = type
    BY DEF PackagesInv, Doing
  <2>2. 1 \in DOMAIN next
    BY <2>1
  <2>3. type \in ToSet(next)
    BY <2>1, <2>2 DEF ToSet
  <2>4. QED BY <2>3 DEF MadeInv
<1>3. /\ DOMAIN after = DOMAIN package \cup {type} /\ after[type] = doc
      /\ \A t \in DOMAIN package : t # type => after[t] = package[t]
      /\ after["profile"] = package["profile"]
  BY <1>1 DEF DocumentTypes
<1> HIDE DEF after
<1>4. MadeFor(after)
  <2>1. CASE type = "emirates_id"
    BY <1>1, <1>3, <2>1 DEF MadeFor
  <2>2. CASE type = "bank_statement"
    BY <1>1, <1>3, <2>2 DEF MadeFor
  <2>3. CASE type = "credit_report"
    BY <1>1, <1>2, <1>3, <2>3 DEF MadeFor
  <2>4. CASE type = "resume"
    BY <1>1, <1>3, <2>4 DEF MadeFor
  <2>5. CASE type = "assets_liabilities"
    BY <1>1, <1>3, <2>5 DEF MadeFor
  <2>6. CASE type = "application_form"
    BY <1>1, <1>3, <2>6 DEF MadeFor
  <2>7. QED BY <2>1, <2>2, <2>3, <2>4, <2>5, <2>6 DEF DocumentTypes
<1>5. QED BY <1>4 DEF after

LEMMA StepMadeInv == PackagesInv /\ MadeInv /\ [PackagesNext]_packagesVars => MadeInv'
<1> SUFFICES ASSUME PackagesInv, MadeInv, [PackagesNext]_packagesVars PROVE MadeInv'
  OBVIOUS
<1>1. CASE StartBatch
  <2>1. Scenarios \in Seq(ToSet(Scenarios))
    BY DEF Scenarios, ToSet
  <2>2. program' = "test_data" => left' \in Seq(ToSet(Scenarios))
    BY <1>1, <2>1 DEF StartBatch
  <2>3. next = <<>> /\ UNCHANGED <<next, package>>
    BY <1>1 DEF StartBatch, PackagesInv
  <2>4. QED BY <2>2, <2>3 DEF MadeInv, DoneIsMade, SheetAfterReport
<1>2. CASE StartPackage
  <2>1. program \in {"cli", "test_data"} /\ next' = Steps[program] /\ program' = program
    BY <1>2 DEF StartPackage, PackagesInv
  <2>2. PICK p \in Applicants :
          package' = [t \in {"profile"} |->
                        IF program = "cli" THEN p ELSE BuildProfile(p, seed')]
    BY <1>2 DEF StartPackage
  <2>3. DOMAIN package' = {"profile"}
    BY <2>2
  <2>4. program = "test_data" => seed' \in ToSet(Scenarios) /\ left' \in Seq(ToSet(Scenarios))
    BY <1>2, HeadTailProperties DEF StartPackage, MadeInv
  <2>5. IsProfile(package'["profile"])
    BY <2>1, <2>2, <2>4, DrawnProfile, BuiltProfile
  <2>6. MadeFor(package')
    BY <2>3, <2>5 DEF MadeFor
  <2>7. DoneIsMade'
    <3>1. program = "cli" => DocumentTypes \subseteq ToSet(next')
      BY <2>1, StepsOfCli, DocumentsAre DEF Files
    <3>2. QED BY <2>1, <2>3, <3>1 DEF DoneIsMade
  <2>8. SheetAfterReport'
    <3>1. CASE program = "cli"
      <4>1. \A i \in DOMAIN next' : /\ next'[i] = "credit_report" => i = 3
                                    /\ next'[i] = "assets_liabilities" => i = 5
        BY <2>1, <3>1, StepsOfCli
      <4>2. QED BY <2>1, <3>1, <4>1 DEF SheetAfterReport
    <3>2. CASE program = "test_data"
      BY <2>1, <3>2, StepsOfScript DEF SheetAfterReport
    <3>3. QED BY <2>1, <3>1, <3>2
  <2>9. QED BY <2>1, <2>3, <2>4, <2>6, <2>7, <2>8 DEF MadeInv
<1>3. CASE FinishBatch \/ LeapDay \/ Killed
  BY <1>3, StoppedMakesNothing DEF FinishBatch, LeapDay, Killed
<1>4. CASE MakeEmiratesId
  <2>1. PICK doc \in EmiratesIds(package["profile"]) :
          Doing("emirates_id") /\ PutFile("emirates_id", doc)
    BY <1>4 DEF MakeEmiratesId
  <2>2. QED BY <2>1, FitsIn, PutMakes DEF DocumentTypes
<1>5. CASE MakeBankStatement
  <2>1. PICK doc \in BankStatements(package["profile"]) :
          /\ Doing("bank_statement")
          /\ IF Reconciles(doc) THEN PutFile("bank_statement", doc) ELSE Stopped /\ UNCHANGED disk
    BY <1>5 DEF MakeBankStatement
  <2>2. CASE Reconciles(doc)
    BY <2>1, <2>2, FitsIn, PutMakes DEF DocumentTypes
  <2>3. CASE ~Reconciles(doc)
    BY <2>1, <2>3, StoppedMakesNothing
  <2>4. QED BY <2>2, <2>3
<1>6. CASE MakeCreditReport
  <2>1. PICK doc \in CreditReports(package["profile"]) :
          Doing("credit_report") /\ PutFile("credit_report", doc)
    BY <1>6 DEF MakeCreditReport
  <2>2. QED BY <2>1, FitsIn, PutMakes DEF DocumentTypes
<1>7. CASE MakeResume
  <2>1. PICK doc \in Resumes(package["profile"]) : Doing("resume") /\ PutFile("resume", doc)
    BY <1>7 DEF MakeResume
  <2>2. QED BY <2>1, FitsIn, PutMakes DEF DocumentTypes
<1>8. CASE MakeAssetsLiabilities
  <2>1. PICK doc \in AssetsLiabilities(package["profile"], package["credit_report"].records) :
          Doing("assets_liabilities") /\ PutFile("assets_liabilities", doc)
    BY <1>8 DEF MakeAssetsLiabilities
  <2>2. "credit_report" \in DOMAIN package
    <3>1. next \in Seq(Files) /\ next # <<>> /\ next[1] = "assets_liabilities"
      BY <2>1 DEF PackagesInv, Doing
    <3>2. 1 \in DOMAIN next
      BY <3>1
    <3>3. program = "cli" /\ \A i \in DOMAIN next : next[i] = "credit_report" => i < 1
      BY <3>1, <3>2 DEF MadeInv, SheetAfterReport
    <3>4. "credit_report" \notin ToSet(next)
      BY <3>1, <3>3 DEF ToSet
    <3>5. QED BY <3>1, <3>3, <3>4 DEF MadeInv, DoneIsMade, DocumentTypes
  <2>3. QED BY <2>1, <2>2, FitsIn, PutMakes DEF DocumentTypes
<1>9. CASE MakeApplicationForm
  <2> DEFINE doc == ApplicationForm(package["profile"])
  <2>1. Doing("application_form") /\ PutFile("application_form", doc)
    BY <1>9 DEF MakeApplicationForm
  <2> HIDE DEF doc
  <2>2. doc = ApplicationForm(package["profile"])
    BY DEF doc
  <2>3. QED BY <2>1, <2>2, FitsIn, PutMakes DEF DocumentTypes
<1>10. CASE WriteData
  <2>1. Doing("data") /\ next' = Tail(next) /\ UNCHANGED <<program, left, package>>
    BY <1>10 DEF WriteData
  <2>2. /\ SheetAfterReport'
        /\ ToSet(next) \subseteq {"data"} \cup ToSet(next') /\ ToSet(next') \subseteq ToSet(next)
    BY <2>1, StepTaken
  <2>3. DoneIsMade'
    BY <2>1, <2>2 DEF MadeInv, DoneIsMade, Doing, DocumentTypes
  <2>4. QED BY <2>1, <2>2, <2>3 DEF MadeInv
<1>11. CASE WriteReport
  <2>1. next' = <<>> /\ UNCHANGED <<program, left, package>>
    BY <1>11 DEF WriteReport
  <2>2. DoneIsMade' /\ SheetAfterReport' /\ ToSet(next') = {}
    BY <2>1 DEF DoneIsMade, SheetAfterReport, ToSet
  <2>3. QED BY <2>1, <2>2 DEF MadeInv
<1>12. CASE UNCHANGED packagesVars
  BY <1>12 DEF packagesVars, MadeInv, DoneIsMade, SheetAfterReport
<1>13. QED
  BY <1>1, <1>2, <1>3, <1>4, <1>5, <1>6, <1>7, <1>8, <1>9, <1>10, <1>11, <1>12 DEF PackagesNext

(* When the report is next all six documents are there; and the rules hold *)
(* of what is made for one profile, Gate 1's errors are the known ones.    *)
LEMMA MadePass == PackagesInv /\ MadeInv => PackagesPassTheirChecks
<1> SUFFICES ASSUME PackagesInv, MadeInv PROVE PackagesPassTheirChecks
  OBVIOUS
<1>1. ASSUME Doing("report") PROVE ValidateConsistency(package)
  <2>1. /\ next \in Seq(Files) /\ next # <<>> /\ next[1] = "report"
        /\ Len(next) \in Nat \ {0} /\ DOMAIN next = 1..Len(next)
    BY <1>1 DEF PackagesInv, Doing
  <2>2. program = "cli" /\ ToSet(next) = {"report"}
    BY <2>1 DEF PackagesInv, ReportComesLast, ToSet
  <2>3. "profile" \in DOMAIN package /\ DocumentTypes \subseteq DOMAIN package
    BY <2>1, <2>2 DEF MadeInv, DoneIsMade, DocumentTypes
  <2>4. MadeFor(package)
    BY <2>3 DEF MadeInv
  <2>5. QED BY <2>3, <2>4, RulesHold
<1>2. ASSUME NEW type \in DOMAIN package \ {"profile"}
      PROVE  /\ RequiredFields(type) \subseteq package[type].shows
             /\ ContentErrors(package[type]) \subseteq KnownFaults(type, package)
  <2>1. MadeFor(package) /\ type \in DOMAIN package \cap DocumentTypes
    BY <1>2 DEF MadeInv
  <2>2. QED BY <2>1, FaultsAreKnown
<1>3. QED BY <1>1, <1>2 DEF PackagesPassTheirChecks

(* Whatever is drawn, a package that is complete when its report is to be  *)
(* written satisfies the eleven rules, so no report says that it failed;   *)
(* and Gate 1 finds every required field on each document and no errors    *)
(* but the known ones (src/data_generation).                               *)
THEOREM PackagesPass == PackagesSpec => []PackagesPassTheirChecks
<1>1. PackagesInit => PackagesInv /\ MadeInv
  BY InitPackagesInv, InitMadeInv
<1>2. (PackagesInv /\ MadeInv) /\ [PackagesNext]_packagesVars => (PackagesInv /\ MadeInv)'
  BY StepPackagesInv, StepMadeInv
<1>3. QED BY <1>1, <1>2, MadePass, PTL DEF PackagesSpec

-----------------------------------------------------------------------------
(* The circuit breaker. *)

USE ThresholdAssumption, TimeoutAssumption, RetriesAssumption,
    FallbackAssumption

(* Idle and freshly admitted coroutines are well-typed records. *)
LEMMA IdleIsCall == ASSUME NEW r \in Result PROVE Idle(r) \in Call
  BY DEF Idle, Call

(* What the steps preserve together: BackoffEnds keeps the attempt number   *)
(* in range only because a coroutine goes to sleep with a retry left, and  *)
(* a straggler's failure finds the count consistent with the state only if *)
(* every earlier one did.                                                  *)
BreakerInv ==
  /\ TypeOK
  /\ BackoffHasRetries
  /\ ClosedIffBelowThreshold
  /\ HalfOpenWasQuiet

LEMMA InitBreakerInv == BreakerInit => BreakerInv
<1> SUFFICES ASSUME BreakerInit PROVE BreakerInv
  OBVIOUS
<1>1. Idle("none") \in Call
  BY IdleIsCall DEF Result
<1>2. TypeOK
  BY <1>1 DEF BreakerInit, TypeOK, CircuitBreakerState
<1>3. BackoffHasRetries
  BY DEF BreakerInit, BackoffHasRetries, Idle
<1>4. ClosedIffBelowThreshold /\ HalfOpenWasQuiet
  BY DEF BreakerInit, ClosedIffBelowThreshold, HalfOpenWasQuiet
<1>5. QED BY <1>2, <1>3, <1>4 DEF BreakerInv

(* The coroutines' part of the invariant when one of them comes to rest. *)
LEMMA EndingKeepsCalls ==
  ASSUME NEW c \in Callers, NEW r \in Result, BreakerInv,
         call' = [call EXCEPT ![c] = Idle(r)]
  PROVE  call' \in [Callers -> Call] /\ BackoffHasRetries'
<1>1. Idle(r) \in Call /\ Idle(r).pc = "idle"
  BY IdleIsCall DEF Idle
<1>2. QED BY <1>1 DEF BreakerInv, TypeOK, BackoffHasRetries

LEMMA StepBreakerInv == BreakerInv /\ [BreakerNext]_breakerVars => BreakerInv'
<1> SUFFICES ASSUME BreakerInv, [BreakerNext]_breakerVars PROVE BreakerInv'
  OBVIOUS
<1> USE DEF BreakerInv, TypeOK, CircuitBreakerState, BackoffHasRetries,
            ClosedIffBelowThreshold, HalfOpenWasQuiet, TimeoutElapsed
<1>1. ASSUME NEW c \in Callers, Admit(c) PROVE BreakerInv'
  <2> DEFINE entered ==
        [pc |-> "running", attempt |-> 0,
         admitted |-> IF state = "closed" THEN "closed" ELSE "half_open",
         result |-> "none"]
  <2>1. entered \in Call /\ entered.pc = "running"
    BY DEF Call, Result
  <2>2. call' = [call EXCEPT ![c] = entered]
    BY <1>1 DEF Admit
  <2> HIDE DEF entered
  <2>3. call' \in [Callers -> Call] /\ BackoffHasRetries'
    BY <2>1, <2>2
  <2>4. /\ state' \in CircuitBreakerState
        /\ UNCHANGED <<failureCount, elapsed>>
        /\ state' = "closed" <=> state = "closed"
        /\ state' = "half_open" => elapsed = RecoveryTimeout
    BY <1>1 DEF Admit, CanAttempt
  <2>5. QED BY <2>3, <2>4
<1>2. ASSUME NEW c \in Callers, Reject(c) PROVE BreakerInv'
  <2>1. RejectedResult \in Result
    BY DEF RejectedResult, Result
  <2>2. call' = [call EXCEPT ![c] = Idle(RejectedResult)]
    BY <1>2 DEF Reject
  <2>3. call' \in [Callers -> Call] /\ BackoffHasRetries'
    BY <2>1, <2>2, EndingKeepsCalls
  <2>4. QED BY <1>2, <2>3 DEF Reject
<1>3. ASSUME NEW c \in Callers, AttemptSucceeds(c) PROVE BreakerInv'
  <2>1. call' \in [Callers -> Call] /\ BackoffHasRetries'
    BY <1>3, EndingKeepsCalls DEF AttemptSucceeds, Result
  <2>2. QED BY <1>3, <2>1 DEF AttemptSucceeds, RecordSuccess
<1>4. ASSUME NEW c \in Callers, AttemptFailsTransiently(c) PROVE BreakerInv'
  BY <1>4 DEF AttemptFailsTransiently, Call
<1>5. ASSUME NEW c \in Callers, BackoffEnds(c) PROVE BreakerInv'
  BY <1>5 DEF BackoffEnds, Call
<1>6. ASSUME NEW c \in Callers, AttemptRaises(c) PROVE BreakerInv'
  <2>1. call' \in [Callers -> Call] /\ BackoffHasRetries'
    BY <1>6, EndingKeepsCalls DEF AttemptRaises, Result
  <2>2. QED BY <1>6, <2>1 DEF AttemptRaises, RecordFailure
<1>7. ASSUME NEW c \in Callers, Cancelled(c) PROVE BreakerInv'
  <2>1. call' \in [Callers -> Call] /\ BackoffHasRetries'
    BY <1>7, EndingKeepsCalls DEF Cancelled, Result
  <2>2. QED BY <1>7, <2>1 DEF Cancelled
<1>8. CASE Reset
  BY <1>8 DEF Reset
<1>9. CASE Tick
  BY <1>9 DEF Tick
<1>10. CASE UNCHANGED breakerVars
  BY <1>10 DEF breakerVars
<1>11. QED
  BY <1>1, <1>2, <1>3, <1>4, <1>5, <1>6, <1>7, <1>8, <1>9, <1>10 DEF BreakerNext

-----------------------------------------------------------------------------
LEMMA BreakerInvariance == BreakerSpec => []BreakerInv
<1>1. QED BY InitBreakerInv, StepBreakerInv, PTL DEF BreakerSpec

(* The breaker's variables and every coroutine's keep their types; in       *)
(* particular no call ever makes more than MaxRetries + 1 attempts.        *)
THEOREM BreakerTypes == BreakerSpec => []TypeOK
<1>1. BreakerInv => TypeOK
  BY DEF BreakerInv
<1>2. QED BY BreakerInvariance, <1>1, PTL

(* In every reachable state the breaker is CLOSED if and only if it has     *)
(* counted fewer failures than failure_threshold, however the calls of     *)
(* different requests interleave.                                          *)
THEOREM ClosedMeansFewFailures == BreakerSpec => []ClosedIffBelowThreshold
<1>1. BreakerInv => ClosedIffBelowThreshold
  BY DEF BreakerInv
<1>2. QED BY BreakerInvariance, <1>1, PTL

(* No failure has been recorded for a whole recovery_timeout whenever the   *)
(* breaker is HALF_OPEN.                                                   *)
THEOREM HalfOpenFollowsQuiet == BreakerSpec => []HalfOpenWasQuiet
<1>1. BreakerInv => HalfOpenWasQuiet
  BY DEF BreakerInv
<1>2. QED BY BreakerInvariance, <1>1, PTL

(* A result that arrives while the breaker is OPEN, of a call admitted      *)
(* before it opened, never unblocks it.                                    *)
THEOREM StragglersDoNotUnblock == BreakerSpec => LateResultsDoNotUnblock
<1>1. ASSUME [BreakerNext]_breakerVars, state = "open", state' # "open",
             NEW c \in Callers, InFlight(c)
      PROVE  call'[c] = call[c]
  <2>1. CASE Reset
    BY <2>1 DEF Reset
  <2>2. ASSUME NEW d \in Callers, Admit(d) PROVE call'[c] = call[c]
    <3>1. c # d
      BY <1>1, <2>2 DEF Admit
    <3>2. QED BY <2>2, <3>1 DEF Admit
  <2>3. QED
    BY <1>1, <2>1, <2>2 DEF BreakerNext, breakerVars, Reject, AttemptSucceeds,
       AttemptFailsTransiently, BackoffEnds, AttemptRaises, Cancelled, Tick,
       RecordSuccess, RecordFailure
<1>2. [BreakerNext]_breakerVars =>
        [state = "open" /\ state' # "open" =>
           \A c \in Callers : InFlight(c) => call'[c] = call[c]]_breakerVars
  BY <1>1
<1>3. QED BY <1>2, PTL DEF BreakerSpec, LateResultsDoNotUnblock
=============================================================================
