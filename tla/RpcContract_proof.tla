--------------------------- MODULE RpcContract_proof ---------------------------
(* What a client can rely on follows from the contract, for every set of kinds of *)
(* messages and answers.                                                        *)
EXTENDS RpcContract, TLAPS, SequenceTheorems

AllAnswers ==
    [id : Nat \cup Nobody,
     result : Results \cup {"success", "error", "shutting_down", "not_initialized", "method_not_found"}]

\* Only messages are handled, and their ids are not nobody's.
Ids ==
    /\ sent \in Seq(Kinds) /\ answers \in Seq(AllAnswers)
    /\ \A t \in 1..Len(sent) : t \notin Nobody
    /\ working \subseteq 1..Len(sent)

CInv == Ids /\ AnsweredOnce /\ WorkIsWanted

LEMMA InitContract == Init => CInv
BY EmptySeq DEF Init, CInv, Ids, AnsweredOnce, WorkIsWanted

LEMMA SendContract ==
    ASSUME CInv, Send
    PROVE  CInv'
<1>1. PICK kind \in Kinds : sent' = Append(sent, kind)
  BY DEF Send
<1>2. /\ working' = working /\ answers' = answers /\ Len(sent) + 1 \notin Nobody
  BY DEF Send
<1>3. /\ Len(sent) \in Nat /\ sent' \in Seq(Kinds) /\ Len(sent') = Len(sent) + 1
      /\ \A t \in 1..Len(sent) : sent'[t] = sent[t]
  BY <1>1, AppendProperties, LenProperties DEF CInv, Ids
<1>4. 1..Len(sent) \subseteq 1..Len(sent')
      /\ \A t \in 1..Len(sent') : t \in 1..Len(sent) \/ t = Len(sent) + 1
  BY <1>3
<1>5. Ids'
  BY <1>2, <1>3, <1>4 DEF CInv, Ids
<1>6. AnsweredOnce'
  BY <1>2 DEF CInv, AnsweredOnce
<1>7. WorkIsWanted'
  <2>1. ASSUME NEW t \in working PROVE ~Answered(t)' /\ ~AfterShutdown(t)'
    <3>1. t \in 1..Len(sent) /\ t \in Nat
      BY <1>3 DEF CInv, Ids
    <3>2. \A s \in 1..Len(sent') : s < t => s \in 1..Len(sent)
      BY <1>3, <3>1
    <3> QED
      BY <1>2, <1>3, <3>2 DEF CInv, WorkIsWanted, Answered, AfterShutdown
  <2> QED
    BY <1>2, <2>1 DEF WorkIsWanted
<1> QED
  BY <1>5, <1>6, <1>7 DEF CInv

\* An answer for nobody, or for a request that has none and that no handler works on.
LEMMA AnswerContract ==
    ASSUME CInv, NEW id \in Nat \cup Nobody, NEW result, Answer(id, result),
           [id |-> id, result |-> result] \in AllAnswers,
           id \in Nobody \/ ~Answered(id), id \notin working',
           sent' = sent, working' \subseteq working
    PROVE  CInv'
<1>1. /\ Len(answers) \in Nat /\ answers' \in Seq(AllAnswers) /\ Len(answers') = Len(answers) + 1
      /\ answers'[Len(answers) + 1] = [id |-> id, result |-> result]
      /\ \A i \in 1..Len(answers) : answers'[i] = answers[i]
  BY AppendProperties, LenProperties DEF CInv, Ids, Answer
<1>2. \A i \in 1..Len(answers') : i \in 1..Len(answers) \/ i = Len(answers) + 1
  BY <1>1
<1>3. Ids'
  BY <1>1 DEF CInv, Ids
<1>4. AnsweredOnce'
  BY <1>1, <1>2 DEF CInv, AnsweredOnce, Answered
<1>5. WorkIsWanted'
  BY <1>1, <1>2 DEF CInv, WorkIsWanted, Answered, AfterShutdown
<1> QED
  BY <1>3, <1>4, <1>5 DEF CInv

LEMMA RequestContract ==
    ASSUME CInv, NEW t \in Asked, Refuse(t) \/ Start(t) \/ Complete(t) \/ Shutdown(t)
    PROVE  CInv'
<1>1. t \in 1..Len(sent) /\ t \in Nat
  BY DEF Asked
<1>2. CASE Refuse(t)
  <2>1. Reason(t) \in {"shutting_down", "not_initialized", "method_not_found"}
    BY DEF Reason
  <2>2. [id |-> t, result |-> Reason(t)] \in AllAnswers
    BY <1>1, <2>1 DEF AllAnswers
  <2>3. Answer(t, Reason(t)) /\ ~Answered(t) /\ t \notin working' /\ sent' = sent /\ working' = working
    BY <1>2 DEF Refuse, Waits
  <2> QED
    BY <1>1, <2>2, <2>3, AnswerContract
<1>3. CASE Start(t)
  <2>1. /\ working' = working \cup {t} /\ sent' = sent /\ answers' = answers
        /\ ~Answered(t) /\ ~AfterShutdown(t)
    BY <1>3 DEF Start, Waits
  <2>2. Ids'
    BY <1>1, <2>1 DEF CInv, Ids
  <2>3. AnsweredOnce' /\ WorkIsWanted'
    BY <2>1 DEF CInv, AnsweredOnce, WorkIsWanted, Answered, AfterShutdown
  <2> QED
    BY <2>2, <2>3 DEF CInv
<1>4. CASE Complete(t)
  <2>1. PICK result \in {"success", "error"} : Answer(t, result)
    BY <1>4 DEF Complete
  <2>2. [id |-> t, result |-> result] \in AllAnswers
    BY <1>1 DEF AllAnswers
  <2>3. t \in working /\ working' = working \ {t} /\ sent' = sent
    BY <1>4 DEF Complete
  <2> QED
    BY <1>1, <2>1, <2>2, <2>3, AnswerContract DEF CInv, WorkIsWanted
<1>5. CASE Shutdown(t)
  <2>1. PICK result \in {"success", "not_initialized"} : Answer(t, result)
    BY <1>5 DEF Shutdown
  <2>2. [id |-> t, result |-> result] \in AllAnswers
    BY <1>1 DEF AllAnswers
  <2>3. ~Answered(t) /\ t \notin working' /\ sent' = sent /\ working' = working
    BY <1>5 DEF Shutdown, Waits
  <2> QED
    BY <1>1, <2>1, <2>2, <2>3, AnswerContract
<1> QED
  BY <1>2, <1>3, <1>4, <1>5

LEMMA NobodyContract ==
    ASSUME CInv, AnswerNobody
    PROVE  CInv'
<1>1. PICK id \in Nobody, result \in Results : Answer(id, result)
  BY DEF AnswerNobody
<1>2. [id |-> id, result |-> result] \in AllAnswers
  BY DEF AllAnswers
<1>3. id \notin working /\ sent' = sent /\ working' = working
  BY DEF AnswerNobody, CInv, Ids
<1> QED
  BY <1>1, <1>2, <1>3, AnswerContract

LEMMA QuietContract ==
    ASSUME CInv, UNCHANGED <<sent, working, answers>>
    PROVE  CInv'
BY DEF CInv, Ids, AnsweredOnce, WorkIsWanted, Answered, AfterShutdown

LEMMA ContractInvariant == Spec => []CInv
<1>1. CInv /\ [Next]_contract => CInv'
  BY SendContract, RequestContract, NobodyContract, QuietContract DEF Next, End, contract
<1> QED
  BY InitContract, <1>1, PTL DEF Spec

\* No request is answered twice (Responder::respond, lsp-async-stub).
THEOREM AnsweredAtMostOnce == Spec => []AnsweredOnce
<1>1. CInv => AnsweredOnce
  BY DEF CInv
<1> QED
  BY <1>1, ContractInvariant, PTL

\* No handler runs for a request that has its answer, or that was sent after a
\* shutdown request.
THEOREM OnlyWantedWork == Spec => []WorkIsWanted
<1>1. CInv => WorkIsWanted
  BY DEF CInv
<1> QED
  BY <1>1, ContractInvariant, PTL
===============================================================================
