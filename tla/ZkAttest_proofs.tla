-------------------------- MODULE ZkAttest_proofs --------------------------
(* Proofs about the attestation service: what it signs, however many tabs, *)
(* identities and wallets there are and however often it restarts.         *)
EXTENDS ZkAttest, TLAPS

Waiting == {"preparing", "proving", "attesting"}

(* Types, as far as the rest needs them. *)
ClicksTyped ==
  /\ DOMAIN tab = Tab /\ DOMAIN click = Tab
  /\ \A t \in Tab :
       tab[t] \in Waiting =>
         click[t] \in [identity : Identity, wallet : Wallet, root : Seq(Identity)]
HandlersTyped ==
  handler \in [Tab -> {NoRequest} \union
                      [at : {"verifying", "signing"}, nullifier : Nullifier]]

(* A proof is only made for a group that has the identity in it. *)
ProofIsMember ==
  \A t \in Tab : tab[t] = "attesting" => click[t].identity \in Range(click[t].root)

(* What was signed has its text among the used ones until both are         *)
(* forgotten.                                                              *)
SignedIsUsed ==
  /\ used \subseteq Range(Decimal)
  /\ signed \in [Nullifier -> Nat]
  /\ \A n \in Nullifier : signed[n] <= 1 /\ (Decimal[n] \notin used => signed[n] = 0)

AttestInv ==
  /\ ClicksTyped /\ HandlersTyped /\ group \in Seq(Identity)
  /\ ProofIsMember /\ AttestedIsMember /\ SignedIsUsed

---------------------------------------------------------------------------
LEMMA AppendKeepsMembers ==
  ASSUME NEW g \in Seq(Identity), NEW i \in Identity
  PROVE  Append(g, i) \in Seq(Identity) /\ Range(g) \subseteq Range(Append(g, i))
<1>1. \A k \in DOMAIN g : k \in DOMAIN Append(g, i) /\ Append(g, i)[k] = g[k]
  OBVIOUS
<1> QED
  BY <1>1 DEF Range

(* Enrolling only adds to the group. *)
LEMMA GroupGrows ==
  ASSUME group \in Seq(Identity), NEW i \in Identity, EnrollCommitment(i)
  PROVE  group' \in Seq(Identity) /\ Range(group) \subseteq Range(group')
<1>1. CASE i \in Range(group)
  BY <1>1 DEF EnrollCommitment
<1>2. CASE i \notin Range(group)
  BY <1>2, AppendKeepsMembers DEF EnrollCommitment
<1> QED
  BY <1>1, <1>2

(* A tab's own steps at most let the group grow. *)
LEMMA ServerKept ==
  ASSUME AttestInv, ClicksTyped', ProofIsMember', UNCHANGED <<used, handler, signed>>,
         \/ UNCHANGED group
         \/ group' \in Seq(Identity) /\ Range(group) \subseteq Range(group')
  PROVE  AttestInv'
<1>1. HandlersTyped' /\ SignedIsUsed' /\ group' \in Seq(Identity)
  BY DEF AttestInv, HandlersTyped, SignedIsUsed
<1>2. Range(group) \subseteq Range(group')
  OBVIOUS
<1>3. AttestedIsMember'
  BY <1>2 DEF AttestInv, AttestedIsMember, Serving
<1> QED
  BY <1>1, <1>3 DEF AttestInv

(* A tab that goes back, or on to the wallet, leaves the rest as it is. *)
LEMMA LeaveKeepsClicks ==
  ASSUME ClicksTyped, ProofIsMember, NEW t \in Tab, NEW place, place \notin Waiting,
         Leave(t, place)
  PROVE  ClicksTyped' /\ ProofIsMember'
<1>1. \A s \in Tab : IF s = t THEN tab'[s] = place /\ click'[s] = NoProof
                     ELSE tab'[s] = tab[s] /\ click'[s] = click[s]
  BY DEF Leave, GoTo, ClicksTyped
<1>2. ClicksTyped'
  BY <1>1 DEF Leave, GoTo, ClicksTyped
<1>3. ProofIsMember'
  BY <1>1 DEF ProofIsMember, Waiting
<1> QED
  BY <1>2, <1>3

(* So does the answer of a handler. *)
LEMMA AnswerStep ==
  ASSUME AttestInv, NEW t \in Tab, NEW place, place \notin Waiting, Answer(t, place),
         UNCHANGED <<group, used, signed>>
  PROVE  AttestInv'
<1>1. ClicksTyped' /\ ProofIsMember'
  <2>1. CASE t \in orphan
    BY <2>1 DEF Answer, tabVars, AttestInv, ClicksTyped, ProofIsMember
  <2>2. CASE t \notin orphan
    BY <2>2, LeaveKeepsClicks DEF Answer, AttestInv
  <2> QED
    BY <2>1, <2>2
<1>2. HandlersTyped' /\ AttestedIsMember'
  BY DEF Answer, AttestInv, HandlersTyped, AttestedIsMember, Serving, NoRequest
<1>3. SignedIsUsed' /\ group' \in Seq(Identity)
  BY DEF AttestInv, SignedIsUsed
<1> QED
  BY <1>1, <1>2, <1>3 DEF AttestInv

---------------------------------------------------------------------------
LEMMA AttestInitInv == AttestInit => AttestInv
<1> SUFFICES ASSUME AttestInit PROVE AttestInv
  OBVIOUS
<1>1. ClicksTyped /\ ProofIsMember
  BY DEF AttestInit, ClicksTyped, ProofIsMember, Waiting
<1>2. HandlersTyped /\ AttestedIsMember
  BY DEF AttestInit, NoHandlers, HandlersTyped, AttestedIsMember, Serving, NoRequest
<1>3. group \in Seq(Identity) /\ SignedIsUsed
  BY DEF AttestInit, SignedIsUsed, Unsigned
<1> QED
  BY <1>1, <1>2, <1>3 DEF AttestInv

LEMMA TabStep ==
  ASSUME AttestInv, NEW t \in Tab, TabNext(t)
  PROVE  AttestInv'
<1>1. ASSUME NEW i \in Identity, NEW w \in Wallet, Click(t, i, w)
      PROVE  AttestInv'
  <2>1. /\ click' = [click EXCEPT ![t] = [identity |-> i, wallet |-> w, root |-> <<>>]]
        /\ tab' = [tab EXCEPT ![t] = "preparing"]
        /\ UNCHANGED <<group, used, handler, signed>>
    BY <1>1 DEF Click, GoTo, historyVars, serverVars
  <2>2. [identity |-> i, wallet |-> w, root |-> <<>>]
          \in [identity : Identity, wallet : Wallet, root : Seq(Identity)]
    OBVIOUS
  <2>3. ClicksTyped' /\ ProofIsMember'
    BY <2>1, <2>2 DEF AttestInv, ClicksTyped, ProofIsMember, Waiting
  <2> QED
    BY <2>1, <2>3, ServerKept
<1>2. CASE Enroll(t)
  <2>1. click[t].identity \in Identity
    BY <1>2 DEF Enroll, AttestInv, ClicksTyped, Waiting
  <2>2. group' \in Seq(Identity) /\ Range(group) \subseteq Range(group')
    BY <1>2, <2>1, GroupGrows DEF Enroll, AttestInv
  <2>3. ClicksTyped' /\ ProofIsMember'
    <3>1. CASE GoTo(t, "proving") /\ UNCHANGED click
      BY <1>2, <3>1 DEF Enroll, GoTo, AttestInv, ClicksTyped, ProofIsMember, Waiting
    <3>2. CASE Leave(t, "idle")
      BY <3>2, LeaveKeepsClicks DEF AttestInv, Waiting
    <3> QED
      BY <1>2, <3>1, <3>2 DEF Enroll
  <2>4. UNCHANGED <<used, handler, signed>>
    BY <1>2 DEF Enroll, historyVars
  <2> QED
    BY <2>2, <2>3, <2>4, ServerKept
<1>3. CASE BuildProof(t)
  <2>1. UNCHANGED <<group, used, handler, signed>>
    BY <1>3 DEF BuildProof, serverVars, historyVars
  <2>2. ClicksTyped' /\ ProofIsMember'
    <3>1. CASE click[t].identity \in Range(group)
      BY <1>3, <3>1
      DEF BuildProof, GoTo, AttestInv, ClicksTyped, ProofIsMember, Waiting
    <3>2. CASE click[t].identity \notin Range(group)
      BY <1>3, <3>2, LeaveKeepsClicks DEF BuildProof, AttestInv, Waiting
    <3> QED
      BY <3>1, <3>2
  <2> QED
    BY <2>1, <2>2, ServerKept
<1>4. CASE LoseClick(t)
  <2>1. ClicksTyped' /\ ProofIsMember'
    BY <1>4, LeaveKeepsClicks DEF LoseClick, AttestInv, Waiting
  <2>2. UNCHANGED <<group, used, handler, signed>>
    BY <1>4 DEF LoseClick, historyVars
  <2> QED
    BY <2>1, <2>2, ServerKept
<1>5. CASE Record(t)
  <2>1. UNCHANGED <<group, used, handler, signed, click>>
    BY <1>5 DEF Record, serverVars, historyVars
  <2>2. tab' = [tab EXCEPT ![t] = "idle"]
    BY <1>5 DEF Record, GoTo
  <2>3. ClicksTyped' /\ ProofIsMember'
    BY <2>1, <2>2 DEF AttestInv, ClicksTyped, ProofIsMember, Waiting
  <2> QED
    BY <2>1, <2>3, ServerKept
<1> QED
  BY <1>1, <1>2, <1>3, <1>4, <1>5 DEF TabNext

LEMMA HandlerStep ==
  ASSUME AttestInv, NEW t \in Tab, HandlerNext(t)
  PROVE  AttestInv'
<1>1. CASE StartVerifying(t)
  <2>1. /\ click[t] \in [identity : Identity, wallet : Wallet, root : Seq(Identity)]
        /\ click[t].identity \in Range(click[t].root)
    BY <1>1 DEF StartVerifying, Asking, AttestInv, ClicksTyped, ProofIsMember, Waiting
  <2>2. NullifierOf(click[t]) \in Nullifier /\ NullifierOf(click[t])[1] \in Range(group)
    BY <1>1, <2>1 DEF StartVerifying, CurrentRoot, NullifierOf, Nullifier
  <2>3. UNCHANGED <<tab, click, group, used, signed>>
    BY <1>1 DEF StartVerifying, tabVars, historyVars
  <2>4. handler' = [handler EXCEPT ![t] =
                      [at |-> "verifying", nullifier |-> NullifierOf(click[t])]]
    BY <1>1 DEF StartVerifying
  <2>5. HandlersTyped' /\ AttestedIsMember'
    BY <2>2, <2>3, <2>4 DEF AttestInv, HandlersTyped, AttestedIsMember, Serving
  <2> QED
    BY <2>3, <2>5 DEF AttestInv, ClicksTyped, ProofIsMember, SignedIsUsed
<1>2. CASE RefuseRequest(t)
  <2>1. ClicksTyped' /\ ProofIsMember'
    BY <1>2, LeaveKeepsClicks DEF RefuseRequest, AttestInv, Waiting
  <2>2. UNCHANGED <<group, used, handler, signed>>
    BY <1>2 DEF RefuseRequest, serverVars, historyVars
  <2> QED
    BY <2>1, <2>2, ServerKept
<1>3. CASE SpendNullifier(t)
  <2> DEFINE n == handler[t].nullifier
  <2>1. n \in Nullifier /\ Decimal[n] \notin used
    BY <1>3 DEF SpendNullifier, FirstUse, NullifierKey, AttestInv, HandlersTyped, NoRequest
  <2>2. /\ handler' = [handler EXCEPT ![t].at = "signing"]
        /\ used' = used \union {Decimal[n]} /\ signed' = [signed EXCEPT ![n] = @ + 1]
        /\ UNCHANGED <<tab, click, group>>
    BY <1>3 DEF SpendNullifier, FirstUse, NullifierKey, tabVars
  <2>3. SignedIsUsed'
    <3> HIDE DEF n
    <3>1. Decimal[n] \in Range(Decimal)
      BY <2>1, DecimalAssumption DEF Range
    <3>2. signed[n] = 0 /\ signed \in [Nullifier -> Nat] /\ used \subseteq Range(Decimal)
      BY <2>1 DEF AttestInv, SignedIsUsed
    <3>3. signed' \in [Nullifier -> Nat] /\ signed'[n] = 1 /\ used' \subseteq Range(Decimal)
      BY <2>1, <2>2, <3>1, <3>2
    <3>4. ASSUME NEW m \in Nullifier
          PROVE  signed'[m] <= 1 /\ (Decimal[m] \notin used' => signed'[m] = 0)
      <4>1. CASE m = n
        BY <2>2, <3>3, <4>1
      <4>2. CASE m # n
        <5>1. signed'[m] = signed[m]
          BY <2>1, <2>2, <3>2, <4>2
        <5> QED
          BY <2>2, <5>1 DEF AttestInv, SignedIsUsed
      <4> QED
        BY <4>1, <4>2
    <3> QED
      BY <3>3, <3>4 DEF SignedIsUsed
  <2>4. handler[t] \in [at : {"verifying", "signing"}, nullifier : Nullifier]
    BY <1>3 DEF SpendNullifier, AttestInv, HandlersTyped, NoRequest
  <2>5. HandlersTyped' /\ AttestedIsMember'
    BY <2>2, <2>4 DEF AttestInv, HandlersTyped, AttestedIsMember, Serving
  <2> QED
    BY <2>2, <2>3, <2>5 DEF AttestInv, ClicksTyped, ProofIsMember
<1>4. CASE RejectProof(t)
  BY <1>4, AnswerStep DEF RejectProof, historyVars, Waiting
<1>5. CASE SignAttestation(t)
  BY <1>5, AnswerStep DEF SignAttestation, historyVars, Waiting
<1> QED
  BY <1>1, <1>2, <1>3, <1>4, <1>5 DEF HandlerNext

LEMMA RestartStep ==
  ASSUME AttestInv, Restart
  PROVE  AttestInv'
<1> DEFINE waits == {s \in Tab : Serving(s) /\ s \notin orphan}
<1>1. group' = <<>> /\ used' = {} /\ handler' = NoHandlers /\ signed' = Unsigned
  BY DEF Restart
<1>2. /\ tab' = [s \in Tab |-> IF s \in waits THEN "idle" ELSE tab[s]]
      /\ click' = [s \in Tab |-> IF s \in waits THEN NoProof ELSE click[s]]
  BY DEF Restart
<1>3. ClicksTyped' /\ ProofIsMember'
  <2> HIDE DEF waits
  <2> QED
    BY <1>2 DEF AttestInv, ClicksTyped, ProofIsMember, Waiting
<1>4. HandlersTyped' /\ AttestedIsMember'
  BY <1>1 DEF NoHandlers, HandlersTyped, AttestedIsMember, Serving, NoRequest
<1>5. group' \in Seq(Identity) /\ SignedIsUsed'
  BY <1>1 DEF SignedIsUsed, Unsigned
<1> QED
  BY <1>3, <1>4, <1>5 DEF AttestInv

(* The invariant is inductive. *)
LEMMA AttestInvStep == AttestInv /\ [AttestNext]_attestVars => AttestInv'
<1> SUFFICES ASSUME AttestInv, [AttestNext]_attestVars PROVE AttestInv'
  OBVIOUS
<1>1. CASE TimePasses \/ UNCHANGED attestVars
  <2>1. UNCHANGED <<tab, click, group, used, handler, signed>>
    BY <1>1 DEF TimePasses, attestVars, tabVars, serverVars, historyVars
  <2> QED
    BY <2>1 DEF AttestInv, ClicksTyped, HandlersTyped, ProofIsMember, AttestedIsMember,
                Serving, SignedIsUsed
<1> QED
  BY <1>1, TabStep, HandlerStep, RestartStep DEF AttestNext

(* zk.ts:84: of requests as the page writes them (DecimalAssumption), the  *)
(* server signs between two starts at most one for an identity and a       *)
(* wallet, however many run at once. The server compares texts             *)
(* (zk.ts:99-102), so this is no claim about other spellings of a number.  *)
THEOREM AttestSpecSignedOnce == AttestSpec => []SignedOncePerProcess
<1>1. AttestInv => SignedOncePerProcess
  BY DEF AttestInv, SignedIsUsed, SignedOncePerProcess
<1> QED
  BY <1>1, AttestInitInv, AttestInvStep, PTL DEF AttestSpec

(* Whoever's proof the server is checking or signing for is a member of    *)
(* the group it has now.                                                   *)
THEOREM AttestSpecMember == AttestSpec => []AttestedIsMember
<1>1. AttestInv => AttestedIsMember
  BY DEF AttestInv
<1> QED
  BY <1>1, AttestInitInv, AttestInvStep, PTL DEF AttestSpec

---------------------------------------------------------------------------
(* Types in full. *)

(* What the limiter counts, and for how long.                              *)
LimitTyped ==
  /\ upstash \in BOOLEAN
  /\ bucket \in [Key -> [count : Nat, left : 0 .. Window]]
  /\ remote \in [Key -> [count : Nat, left : 0 .. Window]]
  /\ \A k \in Key : bucket[k].count <= MaxCalls[k] /\ remote[k].count <= MaxCalls[k]

LEMMA LimitTypes == LimitTyped => LimitTypeOK
<1>. SUFFICES ASSUME LimitTyped PROVE LimitTypeOK
  OBVIOUS
<1>1. ASSUME NEW k \in Key, NEW b \in [count : Nat, left : 0 .. Window], b.count <= MaxCalls[k]
      PROVE  b \in [count : Count(k), left : 0 .. Window]
  <2>1. MaxCalls[k] \in Nat
    BY LimitAssumption
  <2>2. b.count \in 0 .. MaxCalls[k] /\ b.left \in 0 .. Window /\ b = [count |-> b.count, left |-> b.left]
    BY <1>1, <2>1
  <2>. QED  BY <2>2 DEF Count
<1>. QED  BY <1>1 DEF LimitTyped, LimitTypeOK

(* A counter with one more call is still one. *)
LEMMA Counted ==
  ASSUME NEW k \in Key, NEW n \in Nat, n <= MaxCalls[k]
  PROVE  CountOn(k, n) \in Nat /\ CountOn(k, n) <= MaxCalls[k]
<1>1. MaxCalls[k] \in Nat \ {0}
  BY LimitAssumption
<1>. QED  BY <1>1 DEF CountOn

LEMMA InMemoryTyped ==
  ASSUME LimitTyped, NEW k \in Key, CountInMemory(k)
  PROVE  /\ bucket' \in [Key -> [count : Nat, left : 0 .. Window]]
         /\ \A j \in Key : bucket'[j].count <= MaxCalls[j]
<1>. DEFINE b == bucket[k]
            n == IF b.left = 0 THEN 1 ELSE CountOn(k, b.count)
            l == IF b.left = 0 THEN Window ELSE b.left
<1>1. /\ b.count \in Nat /\ b.count <= MaxCalls[k] /\ b.left \in 0 .. Window
      /\ bucket \in [Key -> [count : Nat, left : 0 .. Window]]
      /\ \A j \in Key : bucket[j].count <= MaxCalls[j]
  BY DEF LimitTyped
<1>2. MaxCalls[k] \in Nat \ {0} /\ Window \in Nat \ {0}
  BY LimitAssumption
<1>3. CountOn(k, b.count) \in Nat /\ CountOn(k, b.count) <= MaxCalls[k]
  BY <1>1, Counted
<1>4. n \in Nat /\ n <= MaxCalls[k] /\ l \in 0 .. Window
  BY <1>1, <1>2, <1>3
<1>5. bucket' = [bucket EXCEPT ![k] = [count |-> n, left |-> l]]
  BY <1>1 DEF CountInMemory
<1>. HIDE DEF n, l, b
<1>6. [count |-> n, left |-> l] \in [count : Nat, left : 0 .. Window]
  BY <1>4
<1>7. bucket' \in [Key -> [count : Nat, left : 0 .. Window]]
  BY <1>1, <1>5, <1>6
<1>8. \A j \in Key : bucket'[j] = IF j = k THEN [count |-> n, left |-> l] ELSE bucket[j]
  BY <1>1, <1>5
<1>9. ASSUME NEW j \in Key PROVE bucket'[j].count <= MaxCalls[j]
  <2>1. CASE j = k
    BY <1>4, <1>8, <2>1
  <2>2. CASE j # k
    BY <1>1, <1>8, <2>2
  <2>. QED  BY <2>1, <2>2
<1>. QED  BY <1>7, <1>9

LEMMA UpstashTyped ==
  ASSUME LimitTyped, NEW k \in Key, UpstashIncr(k)
  PROVE  /\ remote' \in [Key -> [count : Nat, left : 0 .. Window]]
         /\ \A j \in Key : remote'[j].count <= MaxCalls[j]
<1>. DEFINE n == CountOn(k, remote[k].count)
<1>1. /\ remote[k].count \in Nat /\ remote[k].count <= MaxCalls[k] /\ remote[k].left \in 0 .. Window
      /\ remote \in [Key -> [count : Nat, left : 0 .. Window]]
      /\ \A j \in Key : remote[j].count <= MaxCalls[j]
  BY DEF LimitTyped
<1>2. n \in Nat /\ n <= MaxCalls[k]
  BY <1>1, Counted
<1>3. Window \in Nat \ {0}
  BY LimitAssumption
<1>4. PICK l \in IF remote[k].left > 0 THEN {remote[k].left} ELSE {0, Window} :
        remote' = [remote EXCEPT ![k] = [count |-> n, left |-> l]]
  BY <1>1 DEF UpstashIncr
<1>5. l \in 0 .. Window
  BY <1>1, <1>3, <1>4
<1>. HIDE DEF n
<1>6. [count |-> n, left |-> l] \in [count : Nat, left : 0 .. Window]
  BY <1>2, <1>5
<1>7. remote' \in [Key -> [count : Nat, left : 0 .. Window]]
  BY <1>1, <1>4, <1>6
<1>8. \A j \in Key : remote'[j] = IF j = k THEN [count |-> n, left |-> l] ELSE remote[j]
  BY <1>1, <1>4
<1>9. ASSUME NEW j \in Key PROVE remote'[j].count <= MaxCalls[j]
  <2>1. CASE j = k
    BY <1>2, <1>8, <2>1
  <2>2. CASE j # k
    BY <1>1, <1>8, <2>2
  <2>. QED  BY <2>1, <2>2
<1>. QED  BY <1>7, <1>9

LEMMA LimitCallTyped ==
  ASSUME LimitTyped, NEW k \in Key,
         RateLimit(k, TRUE) \/ RateLimit(k, FALSE) \/ RateLimitThrows(k)
  PROVE  LimitTyped'
<1>1. UNCHANGED upstash
  BY DEF RateLimit, RateLimitThrows
<1>2. CountInMemory(k) \/ UNCHANGED bucket
  BY DEF RateLimit, RateLimitThrows, InMemory
<1>3. UpstashIncr(k) \/ UNCHANGED remote
  BY DEF RateLimit, RateLimitThrows
<1>4. /\ bucket' \in [Key -> [count : Nat, left : 0 .. Window]]
      /\ \A j \in Key : bucket'[j].count <= MaxCalls[j]
  BY <1>2, InMemoryTyped DEF LimitTyped
<1>5. /\ remote' \in [Key -> [count : Nat, left : 0 .. Window]]
      /\ \A j \in Key : remote'[j].count <= MaxCalls[j]
  BY <1>3, UpstashTyped DEF LimitTyped
<1>. QED  BY <1>1, <1>4, <1>5 DEF LimitTyped

LEMMA ElapsedTyped ==
  ASSUME NEW k \in Key, NEW b \in [count : Nat, left : 0 .. Window], b.count <= MaxCalls[k]
  PROVE  /\ Elapsed(b) \in [count : Nat, left : 0 .. Window]
         /\ Elapsed(b).count <= MaxCalls[k]
<1>1. MaxCalls[k] \in Nat \ {0} /\ Window \in Nat \ {0}
  BY LimitAssumption
<1>2. b.count \in Nat /\ b.left \in 0 .. Window
  OBVIOUS
<1>3. CASE b.left > 1
  <2>1. Elapsed(b) = [b EXCEPT !.left = b.left - 1]
    BY <1>3 DEF Elapsed
  <2>2. b.left - 1 \in 0 .. Window
    BY <1>1, <1>2, <1>3
  <2>. QED  BY <2>1, <2>2
<1>4. CASE b.left = 1
  <2>1. Elapsed(b) = [count |-> 0, left |-> 0]
    BY <1>4 DEF Elapsed
  <2>2. 0 \in 0 .. Window /\ 0 <= MaxCalls[k]
    BY <1>1
  <2>. QED  BY <2>1, <2>2
<1>5. CASE ~(b.left > 1) /\ b.left # 1
  BY <1>5 DEF Elapsed
<1>. QED  BY <1>3, <1>4, <1>5

LEMMA LimitTickTyped ==
  ASSUME LimitTyped, LimitTick
  PROVE  LimitTyped'
<1>1. \A k \in Key : /\ bucket[k] \in [count : Nat, left : 0 .. Window] /\ bucket[k].count <= MaxCalls[k]
                     /\ remote[k] \in [count : Nat, left : 0 .. Window] /\ remote[k].count <= MaxCalls[k]
  BY DEF LimitTyped
<1>2. \A k \in Key : /\ Elapsed(bucket[k]) \in [count : Nat, left : 0 .. Window]
                     /\ Elapsed(bucket[k]).count <= MaxCalls[k]
  BY <1>1, ElapsedTyped
<1>3. \A k \in Key : /\ Elapsed(remote[k]) \in [count : Nat, left : 0 .. Window]
                     /\ Elapsed(remote[k]).count <= MaxCalls[k]
  BY <1>1, ElapsedTyped
<1>4. /\ bucket' = [k \in Key |-> Elapsed(bucket[k])]
      /\ remote' = [k \in Key |-> Elapsed(remote[k])]
      /\ upstash' = upstash
  BY DEF LimitTick
<1>. QED  BY <1>2, <1>3, <1>4 DEF LimitTyped

LEMMA LimitInitTyped ==
  ASSUME upstash \in BOOLEAN, bucket = NoCalls, remote = NoCalls
  PROVE  LimitTyped
<1>1. Window \in Nat \ {0} /\ \A k \in Key : MaxCalls[k] \in Nat \ {0}
  BY LimitAssumption
<1>2. [count |-> 0, left |-> 0] \in [count : Nat, left : 0 .. Window]
  BY <1>1
<1>. QED  BY <1>1, <1>2 DEF NoCalls, LimitTyped

(* A tab holds a click while it waits, and none otherwise.                 *)
TabsTyped ==
  /\ tab \in [Tab -> Waiting \union {"idle", "recording"}]
  /\ DOMAIN click = Tab
  /\ \A t \in Tab : click[t] \in IF tab[t] \in Waiting THEN Proof ELSE {NoProof}
OrphansServed == orphan \subseteq {t \in Tab : Serving(t)}

AttestTypes ==
  /\ AttestInv /\ LimitTyped /\ TabsTyped /\ group \in Root /\ OrphansServed
  /\ restarts \in 0 .. MaxRestarts

LEMMA AttestTyped == AttestTypes => AttestTypeOK
<1>. SUFFICES ASSUME AttestTypes PROVE AttestTypeOK
  OBVIOUS
<1>1. LimitTypeOK
  BY LimitTypes DEF AttestTypes
<1>2. /\ tab \in [Tab -> {"idle", "preparing", "proving", "attesting", "recording"}]
      /\ \A t \in Tab : click[t] \in IF tab[t] \in {"preparing", "proving", "attesting"}
                                     THEN Proof ELSE {NoProof}
  BY DEF AttestTypes, TabsTyped, Waiting
<1>3. \A t \in Tab :
        handler[t] \in {NoRequest} \union [at : {"verifying", "signing"}, nullifier : Nullifier]
  BY DEF AttestTypes, AttestInv, HandlersTyped
<1>4. used \subseteq Range(Decimal) /\ signed \in [Nullifier -> Nat]
  BY DEF AttestTypes, AttestInv, SignedIsUsed
<1>. QED  BY <1>1, <1>2, <1>3, <1>4 DEF AttestTypes, OrphansServed, AttestTypeOK

LEMMA LeaveTyped ==
  ASSUME TabsTyped, NEW t \in Tab, NEW place \in {"idle", "recording"}, Leave(t, place)
  PROVE  TabsTyped'
<1>1. tab' = [tab EXCEPT ![t] = place] /\ click' = [click EXCEPT ![t] = NoProof]
  BY DEF Leave, GoTo
<1>2. place \notin Waiting
  BY DEF Waiting
<1>. QED  BY <1>1, <1>2 DEF TabsTyped

(* A tab that goes on takes a click with it. *)
LEMMA GoTyped ==
  ASSUME TabsTyped, NEW t \in Tab, NEW place \in Waiting, NEW c \in Proof,
         tab' = [tab EXCEPT ![t] = place], click' = [click EXCEPT ![t] = c]
  PROVE  TabsTyped'
BY DEF TabsTyped

LEMMA AnswerTyped ==
  ASSUME AttestTypes, NEW t \in Tab, NEW place \in {"idle", "recording"}, Answer(t, place)
  PROVE  TabsTyped' /\ OrphansServed'
<1>1. TabsTyped'
  <2>1. CASE t \in orphan
    BY <2>1 DEF Answer, tabVars, AttestTypes, TabsTyped
  <2>2. CASE t \notin orphan
    BY <2>2, LeaveTyped DEF Answer, AttestTypes
  <2>. QED  BY <2>1, <2>2
<1>2. \A s \in Tab : s # t => handler'[s] = handler[s]
  BY DEF Answer, AttestTypes, AttestInv, HandlersTyped
<1>3. orphan' = orphan \ {t}
  BY DEF Answer
<1>4. OrphansServed'
  BY <1>2, <1>3 DEF AttestTypes, OrphansServed, Serving
<1>. QED  BY <1>1, <1>4

LEMMA RootAppend ==
  ASSUME group \in Root, NEW i \in Identity, EnrollCommitment(i)
  PROVE  group' \in Root
<1>1. CASE i \in Range(group)
  BY <1>1 DEF EnrollCommitment
<1>2. CASE i \notin Range(group)
  <2>. DEFINE n == Len(group)
  <2>1. group \in Seq(Identity) /\ n \in Nat /\ group' = Append(group, i)
    BY <1>2 DEF EnrollCommitment, Root
  <2>2. /\ group' \in Seq(Identity) /\ DOMAIN group' = 1 .. n + 1 /\ DOMAIN group = 1 .. n
        /\ group'[n + 1] = i /\ \A k \in 1 .. n : group'[k] = group[k]
    BY <2>1
  <2>3. \A k \in 1 .. n : group[k] # i
    BY <1>2, <2>2 DEF Range
  <2>. HIDE DEF n
  <2>4. ASSUME NEW a \in 1 .. n + 1, NEW b \in 1 .. n + 1, group'[a] = group'[b]
        PROVE  a = b
    <3>1. \A k \in 1 .. n + 1 : k \in 1 .. n \/ k = n + 1
      BY <2>1
    <3>2. CASE a = n + 1 \/ b = n + 1
      BY <2>2, <2>3, <2>4, <3>1, <3>2
    <3>3. CASE a \in 1 .. n /\ b \in 1 .. n
      <4>1. group[a] = group[b]
        BY <2>2, <2>4, <3>3
      <4>. QED  BY <2>2, <3>3, <4>1 DEF Root, IsInjective
    <3>. QED  BY <3>1, <3>2, <3>3
  <2>. QED  BY <2>2, <2>4 DEF Root, IsInjective
<1>. QED  BY <1>1, <1>2

LEMMA EmptyRoot == <<>> \in Root
BY DEF Root, IsInjective

LEMMA AttestTypesInit == AttestInit => AttestTypes
<1>. SUFFICES ASSUME AttestInit PROVE AttestTypes
  OBVIOUS
<1>1. AttestInv
  BY AttestInitInv
<1>2. LimitTyped
  BY LimitInitTyped DEF AttestInit, LimitInit
<1>3. TabsTyped /\ OrphansServed
  BY DEF AttestInit, TabsTyped, OrphansServed, Waiting
<1>4. group \in Root /\ restarts \in 0 .. MaxRestarts
  BY EmptyRoot, AttestAssumption DEF AttestInit
<1>. QED  BY <1>1, <1>2, <1>3, <1>4 DEF AttestTypes

LEMMA TabTyped ==
  ASSUME AttestTypes, NEW t \in Tab, TabNext(t)
  PROVE  LimitTyped' /\ TabsTyped' /\ group' \in Root /\ OrphansServed' /\ restarts' = restarts
<1>0. UNCHANGED limitVars /\ UNCHANGED restarts /\ UNCHANGED handler
  BY DEF TabNext, Click, Enroll, BuildProof, LoseClick, Record, historyVars, serverVars
<1>1. LimitTyped'
  BY <1>0 DEF AttestTypes, LimitTyped, limitVars
<1>2. OrphansServed'
  <2>1. orphan' = orphan \/ orphan' = IF Serving(t) THEN orphan \union {t} ELSE orphan
    BY DEF TabNext, Click, Enroll, BuildProof, LoseClick, Record, serverVars
  <2>. QED  BY <1>0, <2>1 DEF AttestTypes, OrphansServed, Serving
<1>3. click[t].identity \in Identity \/ tab[t] \notin Waiting
  BY DEF AttestTypes, TabsTyped, Proof
<1>4. group' \in Root
  <2>1. CASE Enroll(t)
    BY <1>3, <2>1, RootAppend DEF Enroll, AttestTypes, Waiting
  <2>2. CASE UNCHANGED group
    BY <2>2 DEF AttestTypes
  <2>. QED  BY <2>1, <2>2 DEF TabNext, Click, BuildProof, LoseClick, Record, serverVars
<1>5. TabsTyped /\ group \in Root
  BY DEF AttestTypes
<1>6. ASSUME NEW i \in Identity, NEW w \in Wallet, Click(t, i, w) PROVE TabsTyped'
  <2>1. [identity |-> i, wallet |-> w, root |-> <<>>] \in Proof
    BY EmptyRoot DEF Proof
  <2>2. "preparing" \in Waiting
    BY DEF Waiting
  <2>. QED  BY <1>5, <1>6, <2>1, <2>2, GoTyped DEF Click, GoTo
<1>7. ASSUME Enroll(t) PROVE TabsTyped'
  <2>1. CASE GoTo(t, "proving") /\ UNCHANGED click
    BY <1>5, <1>7, <2>1 DEF Enroll, GoTo, TabsTyped, Waiting
  <2>. QED  BY <1>5, <1>7, <2>1, LeaveTyped DEF Enroll
<1>8. ASSUME BuildProof(t) PROVE TabsTyped'
  <2>1. CASE Leave(t, "idle")
    BY <1>5, <2>1, LeaveTyped
  <2>2. CASE GoTo(t, "attesting") /\ click' = [click EXCEPT ![t].root = group]
    <3>1. click[t] \in Proof
      BY <1>5, <1>8 DEF BuildProof, TabsTyped, Waiting
    <3>2. [click[t] EXCEPT !.root = group] \in Proof
      BY <1>5, <3>1 DEF Proof
    <3>3. "attesting" \in Waiting
      BY DEF Waiting
    <3>4. click' = [click EXCEPT ![t] = [click[t] EXCEPT !.root = group]]
      BY <2>2
    <3>. QED  BY <1>5, <2>2, <3>2, <3>3, <3>4, GoTyped DEF GoTo
  <2>. QED  BY <1>8, <2>1, <2>2 DEF BuildProof
<1>9. ASSUME LoseClick(t) PROVE TabsTyped'
  BY <1>5, <1>9, LeaveTyped DEF LoseClick
<1>10. ASSUME Record(t) PROVE TabsTyped'
  BY <1>5, <1>10 DEF Record, GoTo, TabsTyped, Waiting
<1>11. TabsTyped'
  BY <1>6, <1>7, <1>8, <1>9, <1>10 DEF TabNext
<1>. QED  BY <1>0, <1>1, <1>2, <1>4, <1>11

LEMMA HandlerTyped ==
  ASSUME AttestTypes, NEW t \in Tab, HandlerNext(t)
  PROVE  LimitTyped' /\ TabsTyped' /\ group' \in Root /\ OrphansServed' /\ restarts' = restarts
<1>0. UNCHANGED group /\ UNCHANGED restarts /\ group \in Root /\ TabsTyped /\ LimitTyped /\ OrphansServed
  BY DEF HandlerNext, StartVerifying, RefuseRequest, SpendNullifier, RejectProof,
         SignAttestation, serverVars, historyVars, AttestTypes
<1>1. LimitTyped'
  <2>1. CASE UNCHANGED limitVars
    BY <1>0, <2>1 DEF LimitTyped, limitVars
  <2>2. CASE StartVerifying(t) \/ RefuseRequest(t)
    <3>1. click[t].wallet \in Key
      BY <2>2, AttestAssumption
      DEF StartVerifying, RefuseRequest, Asking, AttestTypes, TabsTyped, Waiting, Proof
    <3>2. \/ RateLimit(click[t].wallet, TRUE) \/ RateLimit(click[t].wallet, FALSE)
          \/ RateLimitThrows(click[t].wallet)
      BY <2>2 DEF StartVerifying, RefuseRequest
    <3>. QED  BY <1>0, <3>1, <3>2, LimitCallTyped
  <2>. QED  BY <2>1, <2>2 DEF HandlerNext, SpendNullifier, RejectProof, SignAttestation
<1>2. CASE StartVerifying(t)
  <2>1. UNCHANGED <<tab, click, orphan>>
        /\ handler' = [handler EXCEPT ![t] =
                         [at |-> "verifying", nullifier |-> NullifierOf(click[t])]]
    BY <1>2 DEF StartVerifying, tabVars
  <2>2. OrphansServed'
    BY <1>0, <2>1 DEF OrphansServed, Serving, AttestTypes, AttestInv, HandlersTyped
  <2>. QED  BY <1>0, <1>1, <2>1, <2>2 DEF TabsTyped
<1>3. CASE RefuseRequest(t)
  <2>1. OrphansServed'
    BY <1>0, <1>3 DEF RefuseRequest, serverVars, OrphansServed, Serving
  <2>2. TabsTyped'
    BY <1>0, <1>3, LeaveTyped DEF RefuseRequest
  <2>. QED  BY <1>0, <1>1, <2>1, <2>2
<1>4. CASE SpendNullifier(t)
  <2>1. UNCHANGED <<tab, click, orphan>> /\ handler' = [handler EXCEPT ![t].at = "signing"]
    BY <1>4 DEF SpendNullifier, tabVars
  <2>2. handler[t] \in [at : {"verifying", "signing"}, nullifier : Nullifier]
    BY <1>4 DEF SpendNullifier, AttestTypes, AttestInv, HandlersTyped, NoRequest
  <2>3. OrphansServed'
    BY <1>0, <2>1, <2>2 DEF OrphansServed, Serving, AttestTypes, AttestInv, HandlersTyped
  <2>. QED  BY <1>0, <1>1, <2>1, <2>3 DEF TabsTyped
<1>5. CASE RejectProof(t)
  BY <1>0, <1>1, <1>5, AnswerTyped DEF RejectProof
<1>6. CASE SignAttestation(t)
  BY <1>0, <1>1, <1>6, AnswerTyped DEF SignAttestation
<1>. QED  BY <1>2, <1>3, <1>4, <1>5, <1>6 DEF HandlerNext

LEMMA RestartTyped ==
  ASSUME AttestTypes, Restart
  PROVE  /\ LimitTyped' /\ TabsTyped' /\ group' \in Root /\ OrphansServed'
         /\ restarts' \in 0 .. MaxRestarts
<1>. DEFINE waits == {t \in Tab : Serving(t) /\ t \notin orphan}
<1>1. /\ group' = <<>> /\ orphan' = {} /\ bucket' = NoCalls
      /\ upstash' = upstash /\ remote' = remote
      /\ restarts < MaxRestarts /\ restarts' = restarts + 1
      /\ tab' = [t \in Tab |-> IF t \in waits THEN "idle" ELSE tab[t]]
      /\ click' = [t \in Tab |-> IF t \in waits THEN NoProof ELSE click[t]]
  BY DEF Restart
<1>. HIDE DEF waits
<1>2. TabsTyped'
  BY <1>1 DEF AttestTypes, TabsTyped, Waiting
<1>3. bucket' \in [Key -> [count : Nat, left : 0 .. Window]]
      /\ \A k \in Key : bucket'[k].count <= MaxCalls[k]
  <2>1. Window \in Nat \ {0} /\ \A k \in Key : MaxCalls[k] \in Nat \ {0}
    BY LimitAssumption
  <2>2. [count |-> 0, left |-> 0] \in [count : Nat, left : 0 .. Window]
    BY <2>1
  <2>. QED  BY <1>1, <2>1, <2>2 DEF NoCalls
<1>4. LimitTyped'
  BY <1>1, <1>3 DEF AttestTypes, LimitTyped
<1>5. restarts' \in 0 .. MaxRestarts
  BY <1>1, AttestAssumption DEF AttestTypes
<1>. QED  BY <1>1, <1>2, <1>4, <1>5, EmptyRoot DEF OrphansServed

LEMMA AttestTypesStep == AttestTypes /\ [AttestNext]_attestVars => AttestTypes'
<1>. SUFFICES ASSUME AttestTypes, [AttestNext]_attestVars PROVE AttestTypes'
  OBVIOUS
<1>1. AttestInv'
  BY AttestInvStep DEF AttestTypes
<1>2. ASSUME NEW t \in Tab, TabNext(t) \/ HandlerNext(t) PROVE AttestTypes'
  BY <1>1, <1>2, TabTyped, HandlerTyped DEF AttestTypes
<1>3. CASE Restart
  BY <1>1, <1>3, RestartTyped DEF AttestTypes
<1>4. CASE TimePasses \/ UNCHANGED attestVars
  <2>1. LimitTyped'
    <3>1. CASE LimitTick
      BY <3>1, LimitTickTyped DEF AttestTypes
    <3>2. CASE UNCHANGED limitVars
      BY <3>2 DEF AttestTypes, LimitTyped, limitVars
    <3>. QED  BY <1>4, <3>1, <3>2 DEF TimePasses, attestVars
  <2>2. UNCHANGED <<tab, click, group, handler, orphan, restarts>>
    BY <1>4 DEF TimePasses, attestVars, tabVars, serverVars, historyVars
  <2>. QED  BY <1>1, <2>1, <2>2 DEF AttestTypes, TabsTyped, OrphansServed, Serving
<1>. QED  BY <1>2, <1>3, <1>4 DEF AttestNext

(* Tabs, handlers, the group, the nullifiers and both of the limiter's     *)
(* stores stay well typed: in particular no identity is in the group twice *)
(* and a handler given up on is one that still runs, however requests,     *)
(* answers and restarts are mixed.                                         *)
THEOREM AttestTypeCorrect == AttestSpec => []AttestTypeOK
  BY AttestTyped, AttestTypesInit, AttestTypesStep, PTL DEF AttestSpec
=============================================================================
