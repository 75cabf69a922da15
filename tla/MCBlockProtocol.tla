-------------------------- MODULE MCBlockProtocol --------------------------
(***************************************************************************)
(* Model checking of BlockProtocol, one block by itself, and of StoreCall, *)
(* several blocks that take part in each other's stores: calls says which. *)
(***************************************************************************)
EXTENDS BlockProtocol

CONSTANTS Blocks, Temporary

ASSUME TemporaryAssumption == Temporary \notin Blocks

VARIABLES calls,                           \* "one" or "several"
          held, confirms, parts, failed    \* StoreCall

SC == INSTANCE StoreCall WITH sm <- held, confirm <- confirms

storeVars == <<held, confirms, parts, failed>>

OneInit == calls = "one" /\ Init /\ held = 0 /\ confirms = 0 /\ parts = 0 /\ failed = 0
OneNext == calls = "one" /\ Next /\ UNCHANGED <<calls, storeVars>>

(* The variables of BlockProtocol keep an initial value.                   *)
SeveralInit == calls = "several" /\ Init /\ Tracked /\ SC!Init
SeveralNext == calls = "several" /\ SC!Next /\ UNCHANGED <<calls, vars>>
Stopped == calls = "several" /\ ~ENABLED SC!Next /\ UNCHANGED <<calls, vars, storeVars>>

BlocksSpec ==
  (OneInit \/ SeveralInit) /\ [][OneNext \/ SeveralNext \/ Stopped]_<<calls, vars, storeVars>>

(* Of a stored value no source refuses (dfb.py 665-675): a store fails at  *)
(* its destination, before or behind all of its sources, not among them.   *)
SourcesNeverRefuse == calls = "several" => SC!SourcesNeverRefuse
=============================================================================
