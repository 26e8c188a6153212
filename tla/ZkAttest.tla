------------------------------ MODULE ZkAttest ------------------------------
(***************************************************************************)
(* How a wallet gets verified (app/src: components/VerifyPanel.tsx,        *)
(* lib/zk-client.ts, api/zk/enroll, api/zk/members, api/poh/attest,        *)
(* lib/server/zk.ts): a browser enrols its identity in the server's group, *)
(* proves membership against the group it fetched, gets an attestation,    *)
(* and records it on chain.                                                *)
(*                                                                         *)
(* The tabs are those of any browsers; a click uses the identity its       *)
(* browser keeps then, which another tab may be using as well. Groups,     *)
(* nullifiers and the limiter's buckets live in the server's memory. A     *)
(* Merkle root stands for the sequence of members it is computed from, a   *)
(* nullifier for the identity and the wallet it is computed from. Requests *)
(* are those the page makes: a nullifier arrives as the decimal text the   *)
(* page writes, and the server keeps that text as it came. Between         *)
(* its awaits a tab, or the handler of its attest request, is interleaved  *)
(* with everything else. What the registry does with an attestation is in  *)
(* PoHRegistry.tla.                                                        *)
(***************************************************************************)
EXTENDS RateLimit, Sequences, Functions

CONSTANTS
  Tab,          \* open pages
  Identity,     \* Semaphore identities
  Wallet,       \* accounts
  NoIdentity,
  Decimal,      \* Decimal[n]: what the page writes for the nullifier n
  MaxRestarts   \* bound: how often the server restarts

ASSUME AttestAssumption ==
  /\ Key = Wallet   \* the attest route limits per wallet
  /\ NoIdentity \notin Identity
  /\ MaxRestarts \in Nat

VARIABLES
  tab,       \* tab[t]: VerifyPanel's status
  click,     \* click[t]: the identity, wallet and group root of t's click
  group,     \* the members of the group, oldest first
  used,      \* the texts of the nullifiers used
  handler,   \* handler[t]: where the attest request of t is, and its nullifier
  orphan,    \* the tabs that do not wait for their handler any more
  restarts,
  signed     \* signed[n]: attestations signed for n since the server started

tabVars == <<tab, click>>
serverVars == <<group, used, handler, orphan>>
historyVars == <<restarts, signed>>
attestVars == <<limitVars, tabVars, serverVars, historyVars>>

Nullifier == Identity \X Wallet
NullifierOf(c) == <<c.identity, c.wallet>>
(* The page writes a number in one way only. *)
ASSUME DecimalAssumption == DOMAIN Decimal = Nullifier
Root == {g \in Seq(Identity) : IsInjective(g)}
Proof == [identity : Identity, wallet : Wallet, root : Root]

NoProof == NoIdentity
NoRequest == [at |-> "idle", nullifier |-> <<>>]
Serving(t) == handler[t].at # "idle"

AttestTypeOK ==
  /\ LimitTypeOK
  /\ tab \in [Tab -> {"idle", "preparing", "proving", "attesting", "recording"}]
  /\ \A t \in Tab : click[t] \in IF tab[t] \in {"preparing", "proving", "attesting"}
                                 THEN Proof ELSE {NoProof}
  /\ group \in Root
  /\ used \subseteq Range(Decimal)
  /\ \A t \in Tab :
       handler[t] \in {NoRequest} \union [at : {"verifying", "signing"}, nullifier : Nullifier]
  /\ orphan \subseteq {t \in Tab : Serving(t)}
  /\ restarts \in 0 .. MaxRestarts
  /\ signed \in [Nullifier -> Nat]

Unsigned == [n \in Nullifier |-> 0]
NoHandlers == [t \in Tab |-> NoRequest]
AttestInit ==
  /\ LimitInit
  /\ tab = [t \in Tab |-> "idle"] /\ click = [t \in Tab |-> NoProof]
  /\ group = <<>> /\ used = {} /\ handler = NoHandlers /\ orphan = {}
  /\ restarts = 0 /\ signed = Unsigned

---------------------------------------------------------------------------
(* VerifyPanel and zk-client, up to the attest request. *)

GoTo(t, place) == tab' = [tab EXCEPT ![t] = place]
Leave(t, place) == GoTo(t, place) /\ click' = [click EXCEPT ![t] = NoProof]

(* loadOrCreateIdentity: the identity in localStorage, or a new one. *)
Click(t, i, w) ==
  /\ tab[t] = "idle"
  /\ click' = [click EXCEPT ![t] = [identity |-> i, wallet |-> w, root |-> <<>>]]
  /\ GoTo(t, "preparing")
  /\ UNCHANGED <<limitVars, serverVars, historyVars>>

(* Faulty variant: a returning identity is added again. *)
EnrollCommitmentAgain(i) == group' = Append(group, i)
EnrollCommitment(i) ==
  group' = IF i \in Range(group) THEN group ELSE Append(group, i)

(* The enroll limit, per address, may be reached: LoseClick. *)
Enroll(t) ==
  /\ tab[t] = "preparing"
  /\ EnrollCommitment(click[t].identity)
  /\ \/ GoTo(t, "proving") /\ UNCHANGED click
     \/ Leave(t, "idle")   \* the answer got lost
  /\ UNCHANGED <<limitVars, used, handler, orphan, historyVars>>

(* The proof is built for the group as it is now; a server that restarted  *)
(* in between does not have the identity in it.                            *)
BuildProof(t) ==
  /\ tab[t] = "proving"
  /\ IF click[t].identity \in Range(group)
     THEN GoTo(t, "attesting") /\ click' = [click EXCEPT ![t].root = group]
     ELSE Leave(t, "idle")
  /\ UNCHANGED <<limitVars, serverVars, historyVars>>

(* A request is refused or fails on the way, or the page is reloaded; a    *)
(* handler that serves it goes on.                                         *)
LoseClick(t) ==
  /\ tab[t] \in {"preparing", "proving", "attesting"}
  /\ Leave(t, "idle")
  /\ orphan' = IF Serving(t) THEN orphan \union {t} ELSE orphan
  /\ UNCHANGED <<limitVars, group, used, handler, historyVars>>
---------------------------------------------------------------------------
(* POST /api/poh/attest. *)

(* Whether t's request has reached no handler yet; the one after a request *)
(* that t gave up reaches a handler once that one is done.                 *)
Asking(t) == tab[t] = "attesting" /\ ~Serving(t)

(* Faulty variant: a proof against any group the server ever had will do. *)
AnyRoot(c) == TRUE
CurrentRoot(c) == c.root = group

StartVerifying(t) ==
  /\ Asking(t)
  /\ RateLimit(click[t].wallet, TRUE)
  /\ CurrentRoot(click[t])
  /\ handler' = [handler EXCEPT ![t] =
                   [at |-> "verifying", nullifier |-> NullifierOf(click[t])]]
  /\ UNCHANGED <<tabVars, group, used, orphan, historyVars>>

RefuseRequest(t) ==
  /\ Asking(t)
  /\ \/ RateLimit(click[t].wallet, FALSE)
     \/ RateLimitThrows(click[t].wallet)
     \/ RateLimit(click[t].wallet, TRUE) /\ ~CurrentRoot(click[t])
  /\ Leave(t, "idle")
  /\ UNCHANGED <<serverVars, historyVars>>

(* The handler of t answers, and t goes on to `place` if it still waits. *)
Answer(t, place) ==
  /\ handler' = [handler EXCEPT ![t] = NoRequest]
  /\ orphan' = orphan \ {t}
  /\ IF t \in orphan THEN UNCHANGED tabVars ELSE Leave(t, place)

(* Texts are compared as they were sent, not the numbers they stand for:   *)
(* another spelling of the same number would be another key.               *)
NullifierKey(t) == Decimal[handler[t].nullifier]

(* Faulty variant: the key is remembered, but not looked up. *)
UnlimitedUse(key) == used' = used \union {key}
FirstUse(key) == key \notin used /\ used' = used \union {key}

(* verifyProof returned: from here to the signature there is no await      *)
(* between the look at the keys and the entry in them.                     *)
SpendNullifier(t) ==
  /\ handler[t].at = "verifying"
  /\ FirstUse(NullifierKey(t))
  /\ handler' = [handler EXCEPT ![t].at = "signing"]
  /\ signed' = [signed EXCEPT ![handler[t].nullifier] = @ + 1]
  /\ UNCHANGED <<limitVars, tabVars, group, orphan, restarts>>

RejectProof(t) ==
  /\ handler[t].at = "verifying" /\ NullifierKey(t) \in used
  /\ Answer(t, "idle")
  /\ UNCHANGED <<limitVars, group, used, historyVars>>

SignAttestation(t) ==
  /\ handler[t].at = "signing"
  /\ Answer(t, "recording")
  /\ UNCHANGED <<limitVars, group, used, historyVars>>

---------------------------------------------------------------------------
(* VerifyPanel again, "submitting" and "confirming" in one: the user sends  *)
(* the transaction and its receipt comes, whatever it says, or not in      *)
(* time; or the user does not, and the attestation is gone with the click. *)
(* "done" and "error" enable what "idle" does and are one with it.         *)
Record(t) ==
  /\ tab[t] = "recording"
  /\ GoTo(t, "idle")
  /\ UNCHANGED <<limitVars, click, serverVars, historyVars>>

(* The server's memory is lost; who waited for an answer gets an error. *)
Restart ==
  /\ restarts < MaxRestarts
  /\ restarts' = restarts + 1
  /\ group' = <<>> /\ used' = {} /\ handler' = NoHandlers /\ orphan' = {}
  /\ signed' = Unsigned /\ bucket' = NoCalls
  /\ LET waits == {t \in Tab : Serving(t) /\ t \notin orphan}
     IN /\ tab' = [t \in Tab |-> IF t \in waits THEN "idle" ELSE tab[t]]
        /\ click' = [t \in Tab |-> IF t \in waits THEN NoProof ELSE click[t]]
  /\ UNCHANGED <<upstash, remote>>

---------------------------------------------------------------------------
TabNext(t) ==
  \/ \E i \in Identity, w \in Wallet : Click(t, i, w)
  \/ Enroll(t) \/ BuildProof(t) \/ LoseClick(t) \/ Record(t)

HandlerNext(t) ==
  \/ StartVerifying(t) \/ RefuseRequest(t) \/ SpendNullifier(t) \/ RejectProof(t)
  \/ SignAttestation(t)

TimePasses == LimitTick /\ UNCHANGED <<tabVars, serverVars, historyVars>>

AttestNext ==
  \/ \E t \in Tab : TabNext(t) \/ HandlerNext(t)
  \/ Restart \/ TimePasses

AttestSpec == AttestInit /\ [][AttestNext]_attestVars /\ WF_attestVars(TimePasses)

---------------------------------------------------------------------------
(* zk.ts:84 has a nullifier used once per identity and wallet: of requests *)
(* as the page writes them, however many run at once, are repeated or lose *)
(* their answers, the server signs at most one until it restarts and       *)
(* forgets. It says nothing of a request whose nullifier is spelled in     *)
(* another way, which zk.ts:99-102 would not recognise.                    *)
SignedOncePerProcess == \A n \in Nullifier : signed[n] <= 1

(* Who is being attested is a member of the group the server has now, also *)
(* when the proof was built for the group of before a restart, or others   *)
(* enrolled since it was built or while it is verified.                    *)
AttestedIsMember ==
  \A t \in Tab : Serving(t) => handler[t].nullifier[1] \in Range(group)
=============================================================================
