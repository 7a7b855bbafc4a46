----------------------------- MODULE PoolsProofs -----------------------------
(***************************************************************************)
(* Proofs about the config lookup of GET /api/pools and GET /api/config    *)
(* (Pools), for any number of concurrent requests, any candidate list and  *)
(* any documents, while another process writes and deletes the files.      *)
(***************************************************************************)
EXTENDS Pools, TLAPS

(* A request that is about to open a file names a set candidate.           *)
OpenAtCandidate ==
  \A r \in Requests :
    pc[r] = "open" => idx[r] \in 1..Len(Paths) /\ Paths[idx[r]] # None

(* The inductive invariant behind TypeOK.  TypeOK alone is not inductive: *)
(* Open reads files[Paths[idx[r]]], which is a document only when the      *)
(* search stopped at a set candidate.                                      *)
IInv ==
  /\ TypeOK
  /\ OpenAtCandidate

-----------------------------------------------------------------------------
(* The four shapes of a response.                                          *)
LEMMA ResponseShapes ==
  /\ [status |-> 500] \in ResponseType
  /\ [status |-> 404] \in ResponseType
  /\ \A d \in ConfigDocs : [status |-> 200, config |-> d] \in ResponseType
  /\ \A s \in Seq(DescriptorType) : [status |-> 200, pools |-> s] \in ResponseType
<1>1. [status |-> 500] \in [status: {404, 500}] /\ [status |-> 404] \in [status: {404, 500}]
  OBVIOUS
<1>2. \A d \in ConfigDocs : [status |-> 200, config |-> d] \in [status: {200}, config: ConfigDocs]
  OBVIOUS
<1>3. \A s \in Seq(DescriptorType) :
        [status |-> 200, pools |-> s] \in [status: {200}, pools: Seq(DescriptorType)]
  OBVIOUS
<1>4. [status: {404, 500}] \subseteq ResponseType
  BY DEF ResponseType
<1>5. [status: {200}, config: ConfigDocs] \subseteq ResponseType
  BY DEF ResponseType
<1>6. [status: {200}, pools: Seq(DescriptorType)] \subseteq ResponseType
  BY DEF ResponseType
<1>. QED BY <1>1, <1>2, <1>3, <1>4, <1>5, <1>6

(* The descriptor of an entry that is a mapping carries the entry's values *)
(* and "" for the fields it lacks.                                         *)
LEMMA DescriptorTyped ==
  ASSUME NEW e \in EntryVals, e # Junk
  PROVE  Descriptor(e) \in DescriptorType
<1>1. PICK F \in SUBSET PoolFields : e \in [F -> Scalars]
  BY DEF EntryVals
<1>2. DOMAIN e = F /\ \A f \in F : e[f] \in Scalars
  BY <1>1
<1>. QED BY <1>2 DEF Descriptor, DescriptorType

(* The responses of the handlers have the documented shapes.               *)
LEMMA PoolsAnswerTyped ==
  ASSUME NEW doc \in Docs, doc \notin {Malformed, EmptyDoc}
  PROVE  PoolsAnswer(doc) \in ResponseType
<1>1. CASE doc = ScalarDoc \/ doc.compose = MapVal
  BY <1>1, ResponseShapes DEF PoolsAnswer
<1>2. CASE ~(doc = ScalarDoc \/ doc.compose = MapVal)
  <2>1. doc \in [compose: {NoKey, Null, EmptyMap, MapVal} \cup Seq(EntryVals)]
    BY <1>2 DEF Docs
  <2>2. ComposeList(doc) \in Seq(EntryVals)
    BY <1>2, <2>1 DEF ComposeList
  <2>. DEFINE c == ComposeList(doc)
  <2>3. CASE \E i \in DOMAIN c : c[i] = Junk
    BY <1>2, <2>3, ResponseShapes DEF PoolsAnswer
  <2>4. CASE ~\E i \in DOMAIN c : c[i] = Junk
    <3>1. Len(c) \in Nat /\ DOMAIN c = 1..Len(c) /\ \A i \in 1..Len(c) : c[i] \in EntryVals
      BY <2>2
    <3>2. \A i \in 1..Len(c) : Descriptor(c[i]) \in DescriptorType
      BY <2>4, <3>1, DescriptorTyped
    <3>3. [i \in DOMAIN c |-> Descriptor(c[i])] \in Seq(DescriptorType)
      BY <3>1, <3>2
    <3>. QED BY <1>2, <2>4, <3>3, ResponseShapes DEF PoolsAnswer
  <2>. QED BY <2>3, <2>4
<1>. QED BY <1>1, <1>2

LEMMA OpenAnswerTyped ==
  ASSUME NEW doc \in Contents \cup {NoFile}, NEW ep \in {"pools", "config"}
  PROVE  (IF doc \in {NoFile, Malformed} THEN [status |-> 500]
          ELSE IF doc = EmptyDoc THEN [status |-> 404]
          ELSE IF ep = "config" THEN ConfigAnswer(doc)
          ELSE PoolsAnswer(doc)) \in ResponseType
<1>1. Contents \subseteq Docs
  BY ConstantsAssumption
<1>2. CASE doc \in {NoFile, Malformed}
  BY <1>2, ResponseShapes
<1>3. CASE doc = EmptyDoc /\ doc \notin {NoFile, Malformed}
  BY <1>3, ResponseShapes
<1>4. CASE doc \notin {NoFile, Malformed, EmptyDoc} /\ ep = "config"
  <2>1. doc \in ConfigDocs
    BY <1>1, <1>4 DEF ConfigDocs
  <2>. QED BY <1>4, <2>1, ResponseShapes DEF ConfigAnswer
<1>5. CASE doc \notin {NoFile, Malformed, EmptyDoc} /\ ep # "config"
  BY <1>1, <1>5, PoolsAnswerTyped
<1>. QED BY <1>2, <1>3, <1>4, <1>5

LEMMA IInvInit == Init => IInv
<1>. SUFFICES ASSUME Init PROVE IInv
  OBVIOUS
<1>1. Len(Paths) \in Nat
  BY ConstantsAssumption
<1>2. TypeOK
  BY <1>1 DEF Init, TypeOK, ResponseType
<1>. QED BY <1>2 DEF Init, IInv, OpenAtCandidate

(* The candidate list is a sequence, and a set candidate is a path.        *)
LEMMA PathsFacts ==
  /\ Len(Paths) \in Nat
  /\ DOMAIN Paths = 1..Len(Paths)
  /\ \A i \in 1..Len(Paths) : Paths[i] # None => Paths[i] \in CandidatePaths
<1>1. Paths \in Seq(STRING \cup {None})
  BY ConstantsAssumption
<1>2. Len(Paths) \in Nat /\ DOMAIN Paths = 1..Len(Paths)
  BY <1>1
<1>. QED BY <1>2 DEF CandidatePaths

LEMMA IInvStep == IInv /\ [Next]_vars => IInv'
<1>. SUFFICES ASSUME IInv, [Next]_vars PROVE IInv'
  OBVIOUS
<1>0. /\ Len(Paths) \in Nat
      /\ \A i \in 1..Len(Paths) : Paths[i] # None => Paths[i] \in CandidatePaths
  BY PathsFacts
<1>1. CASE WriteFile
  <2>. PICK p \in CandidatePaths, d \in Contents \cup {NoFile} :
         /\ d # files[p]
         /\ files' = [files EXCEPT ![p] = d]
    BY <1>1 DEF WriteFile
  <2>1. UNCHANGED <<pc, endpoint, idx, resp>>
    BY <1>1 DEF WriteFile
  <2>2. TypeOK'
    BY <1>0, <2>1 DEF IInv, TypeOK
  <2>3. OpenAtCandidate'
    BY <2>1 DEF IInv, OpenAtCandidate
  <2>. QED BY <2>2, <2>3 DEF IInv
<1>2. ASSUME NEW r \in Requests, Start(r) PROVE IInv'
  <2>1. TypeOK'
    BY <1>0, <1>2 DEF Start, IInv, TypeOK
  <2>2. OpenAtCandidate'
    BY <1>2 DEF Start, IInv, OpenAtCandidate
  <2>. QED BY <2>1, <2>2 DEF IInv
<1>3. ASSUME NEW r \in Requests, Search(r) PROVE IInv'
  <2>0. UNCHANGED <<files, endpoint>> /\ pc[r] = "search"
    BY <1>3 DEF Search
  <2>1. CASE idx[r] > Len(Paths)
    <3>1. /\ resp' = [resp EXCEPT ![r] = [status |-> 404]]
          /\ pc' = [pc EXCEPT ![r] = "done"]
          /\ UNCHANGED idx
      BY <1>3, <2>1 DEF Search
    <3>2. [status |-> 404] \in ResponseType
      BY ResponseShapes
    <3>. QED BY <2>0, <3>1, <3>2 DEF IInv, TypeOK, OpenAtCandidate
  <2>2. CASE idx[r] <= Len(Paths) /\ IsFile(files, idx[r])
    <3>1. pc' = [pc EXCEPT ![r] = "open"] /\ UNCHANGED <<idx, resp>>
      BY <1>3, <2>2 DEF Search, IInv, TypeOK
    <3>2. idx[r] \in 1..Len(Paths) /\ Paths[idx[r]] # None
      BY <1>0, <2>2 DEF IInv, TypeOK, IsFile
    <3>. QED BY <2>0, <3>1, <3>2 DEF IInv, TypeOK, OpenAtCandidate
  <2>3. CASE idx[r] <= Len(Paths) /\ ~IsFile(files, idx[r])
    <3>1. idx' = [idx EXCEPT ![r] = @ + 1] /\ UNCHANGED <<pc, resp>>
      BY <1>3, <2>3 DEF Search, IInv, TypeOK
    <3>. QED BY <1>0, <2>0, <2>3, <3>1 DEF IInv, TypeOK, OpenAtCandidate
  <2>. QED BY <2>1, <2>2, <2>3 DEF IInv, TypeOK
<1>4. ASSUME NEW r \in Requests, Open(r) PROVE IInv'
  <2>0. /\ pc[r] = "open"
        /\ pc' = [pc EXCEPT ![r] = "done"]
        /\ UNCHANGED <<files, endpoint, idx>>
    BY <1>4 DEF Open
  <2>1. Paths[idx[r]] \in CandidatePaths
    BY <1>0, <2>0 DEF IInv, OpenAtCandidate
  <2>2. files[Paths[idx[r]]] \in Contents \cup {NoFile}
    BY <2>1 DEF IInv, TypeOK
  <2>3. endpoint[r] \in {"pools", "config"}
    BY DEF IInv, TypeOK
  <2>. DEFINE doc == files[Paths[idx[r]]]
               ans == IF doc \in {NoFile, Malformed} THEN [status |-> 500]
                      ELSE IF doc = EmptyDoc THEN [status |-> 404]
                      ELSE IF endpoint[r] = "config" THEN ConfigAnswer(doc)
                      ELSE PoolsAnswer(doc)
  <2>4. ans \in ResponseType
    BY <2>2, <2>3, OpenAnswerTyped
  <2>5. resp' = [resp EXCEPT ![r] = ans]
    BY <1>4 DEF Open
  <2>. QED BY <2>0, <2>4, <2>5 DEF IInv, TypeOK, OpenAtCandidate
<1>5. ASSUME NEW r \in Requests, Return(r) PROVE IInv'
  BY <1>5 DEF Return, IInv, TypeOK, ResponseType, OpenAtCandidate
<1>6. CASE UNCHANGED vars
  BY <1>6 DEF vars, IInv, TypeOK, OpenAtCandidate
<1>. QED BY <1>1, <1>2, <1>3, <1>4, <1>5, <1>6 DEF Next

(* Every response of GET /api/pools and GET /api/config has a documented  *)
(* shape, whatever the files hold and however they change: a 200 of       *)
(* get_config always carries a parsed document (an empty file is a 404,   *)
(* never config null), and every pool descriptor carries its four fields, *)
(* each the entry's YAML value or "" when absent.                          *)
THEOREM TypeCorrect == Spec => []TypeOK
<1>1. IInv => TypeOK
  BY DEF IInv
<1>. QED BY <1>1, IInvInit, IInvStep, PTL DEF Spec

=============================================================================
