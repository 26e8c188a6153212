------------------------------ MODULE HP2Wire ------------------------------
(***************************************************************************)
(* What goes over the wire when a cart mandate is created (HP2Client in    *)
(* lib/server/hp2/client.ts, signer.ts and canonical.ts; the sandbox       *)
(* gateway's cart-mandate route). A JSON object is a sequence of fields in *)
(* the order it was built; a hash is the value it hashes, an HMAC the pair *)
(* of its key and message; a price is its whole part and the digits of its *)
(* fraction.                                                               *)
(***************************************************************************)
EXTENDS Integers, Sequences, Functions
LOCAL INSTANCE SequencesExt

CONSTANTS
  DECIMALS,    \* of USDC and HKDm, 6 in the code
  TOLERANCE    \* seconds a request may be old, 300 in the code

ASSUME WireAssumption == DECIMALS \in Nat /\ DECIMALS >= 2 /\ TOLERANCE \in Nat

(* amountUSD as the route's schema lets it through: at most two digits     *)
(* after the point, perhaps no point at all.                               *)
IsPrice(p) == p.int \in Nat /\ p.frac \in UNION {[1 .. n -> 0 .. 9] : n \in 0 .. 2}

Number(int, digits) == FoldLeft(LAMBDA n, d : 10 * n + d, int, digits)

(* total.value in minor units: the fraction padded with zeros, then cut.   *)
MinorUnits(p) ==
  LET padded == p.frac \o [i \in 1 .. DECIMALS |-> 0] IN
  Number(p.int, SubSeq(padded, 1, DECIMALS))

---------------------------------------------------------------------------
(* What is signed is the canonical form: the fields whatever their order,  *)
(* and only them.                                                          *)
Canonicalize(object) ==
  [key \in {f[1] : f \in Range(object)} |->
     (CHOOSE f \in Range(object) : f[1] = key)[2]]

Contents(cart) ==
  << <<"id", cart.id>>, <<"user_cart_confirmation_required", TRUE>>,
     <<"payment_request", [id |-> cart.id, total |-> cart.price]>>,
     <<"cart_expiry", "2h">>, <<"merchant_name", "ZephyrPay">> >>

(* The gateway's zod schema rebuilds the object from the fields it knows.  *)
SchemaKeys == {"id", "user_cart_confirmation_required", "payment_request",
               "cart_expiry", "merchant_name"}
Reparsed(object) == SelectSeq(object, LAMBDA f : f[1] \in SchemaKeys)

buildApiSigningMessage(method, path, query, body, time) == <<method, path, query, body, time>>

SpecPath == "/api/v1/public/cart-mandate"

authedRequest(env, body, time) ==
  [appKey |-> env.appKey, time |-> time, body |-> body,
   signature |-> <<env.appSecret, buildApiSigningMessage("POST", SpecPath, "", body, time)>>]

createCartMandate(env, cart, time) ==
  authedRequest(env, [contents |-> Contents(cart), cartHash |-> Canonicalize(Contents(cart))], time)

(* The gateway strips its own prefix before it recomputes the signature.   *)
verifyHmac(env, req, now) ==
  /\ now - req.time \in -TOLERANCE .. TOLERANCE
  /\ req.appKey = env.appKey
  /\ req.signature =
       <<env.appSecret, buildApiSigningMessage("POST", SpecPath, "", req.body, req.time)>>

GatewayAccepts(env, req, now) ==
  /\ verifyHmac(env, req, now)
  /\ req.body.cartHash = Canonicalize(Reparsed(req.body.contents))
============================================================================
