------------------------------ MODULE PTBuilder -----------------------------
(***************************************************************************)
(* A ProgrammableTransactionBuilder in the hands of a caller that uses its *)
(* primitive operations in any order, keeps the Arguments it is given and  *)
(* puts them into commands later, as the Pay, Transfer and Gasless methods *)
(* and MoveCall do.                                                        *)
(***************************************************************************)
EXTENDS BuilderOps

CONSTANTS
  PureValues,   \* values given to Pure and ForceSeparatePure
  ObjectArgs,   \* object arguments given to Obj
  Withdrawals,  \* withdrawals given to CreateFundsWithdrawalArgument
  MaxCalls,     \* bound: input calls on one builder
  MaxCommands   \* bound: commands on one builder

ASSUME BuilderBounds ==
  /\ MaxCalls \in Nat /\ MaxCalls <= U16
  /\ MaxCommands \in Nat /\ MaxCommands <= U16

ASSUME ObjectArgsAssumption ==
  \A o \in ObjectArgs :
    /\ o = [kind |-> o.kind, id |-> o.id, version |-> o.version, mutable |-> o.mutable]
    /\ o.kind \in {"ImmOrOwned", "Receiving", "Shared"}
    /\ o.mutable \in {"yes", "no"}

VARIABLES
  b,         \* the builder
  issued,    \* history: [index, value, separate] for each Argument handed out
  outcome    \* error of the last call

vars == <<b, issued, outcome>>

(* What the caller may put into a command: the inputs it was given, the     *)
(* results of earlier commands, and the gas coin.                           *)
Arguments ==
  {InputArg(issued[i].index) : i \in DOMAIN issued}
    \cup {ResultArg(i - 1) : i \in DOMAIN b.commands}
    \cup {GasCoin}

Init ==
  /\ b = NewBuilder
  /\ issued = <<>>
  /\ outcome = "none"

(* A caller that was not stopped by a panic takes the outcome r of a call   *)
(* that registers value, as an input of its own if separate is "yes".       *)
Register(r, value, separate) ==
  /\ outcome # "panic"
  /\ Len(issued) < MaxCalls
  /\ b' = r.b
  /\ outcome' = r.err
  /\ issued' = IF r.err = "none"
                 THEN Append(issued, [index |-> r.arg[2], value |-> value,
                                      separate |-> separate])
                 ELSE issued

CallPure(v) == Register(Pure(b, v), PureArg(v), "no")

CallForceSeparatePure(v) == Register(ForceSeparatePure(b, v), PureArg(v), "yes")

CallObj(o) == Register(Obj(b, o), ObjectCallArg(o), "no")

CallWithdrawal(w) ==
  Register(CreateFundsWithdrawalArgument(b, w), WithdrawalArg(w), "yes")

CallInput(callArg) ==
  Register(Input(b, callArg), callArg,
           IF callArg.kind = "FundsWithdrawal" THEN "yes" ELSE "no")

CallCommand(arg) ==
  /\ outcome # "panic"
  /\ Len(b.commands) < MaxCommands
  /\ b' = Command(b, [name |-> "MoveCall", args |-> <<arg>>]).b
  /\ outcome' = "none"
  /\ UNCHANGED issued

New ==
  /\ b' = NewBuilder
  /\ issued' = <<>>
  /\ outcome' = "none"

CallArgs ==
  {PureArg(v) : v \in PureValues}
    \cup {ObjectCallArg(o) : o \in ObjectArgs}
    \cup {WithdrawalArg(w) : w \in Withdrawals}
    \cup {[kind |-> "nil", val |-> 0]}

Next ==
  \/ \E v \in PureValues : CallPure(v)
  \/ \E v \in PureValues : CallForceSeparatePure(v)
  \/ \E o \in ObjectArgs : CallObj(o)
  \/ \E w \in Withdrawals : CallWithdrawal(w)
  \/ \E callArg \in CallArgs : CallInput(callArg)
  \/ \E arg \in Arguments : CallCommand(arg)
  \/ New

Spec == Init /\ [][Next]_vars

-----------------------------------------------------------------------------
Handles == [index : 0..(U16 - 1), value : CallArgs, separate : {"yes", "no"}]

(* The order names registered keys only, and at most one for each Argument  *)
(* handed out: a call that fails registers nothing.                         *)
TypeOK ==
  /\ b = [inputs |-> b.inputs, order |-> b.order, commands |-> b.commands]
  /\ b.order \in Seq(DOMAIN b.inputs)
  /\ issued \in Seq(Handles)
  /\ Len(b.order) <= Len(issued) /\ Len(issued) <= MaxCalls

(* Every key of Inputs has exactly one place in InputsKeyOrder, which is    *)
(* what makes len(p.Inputs) a fresh name for a separate input and Finish    *)
(* complete.                                                                *)
OrderIsBijection ==
  /\ \A i, j \in DOMAIN b.order : b.order[i] = b.order[j] => i = j
  /\ DOMAIN b.inputs = {b.order[i] : i \in DOMAIN b.order}

(* The registered value v serves the request w: the same bytes, withdrawal  *)
(* or object, and for a shared object write access if w asked for it.       *)
Serves(v, w) ==
  \/ v = w
  \/ /\ v.kind = "Object" /\ w.kind = "Object"
     /\ v.val.kind = "Shared" /\ w.val.kind = "Shared"
     /\ v.val.id = w.val.id /\ v.val.version = w.val.version
     /\ w.val.mutable = "yes" => v.val.mutable = "yes"

(* An Argument that Pure, ForceSeparatePure, Obj, Input or                  *)
(* CreateFundsWithdrawalArgument returned keeps denoting, in the finished   *)
(* transaction, what the caller registered with it, whatever is registered  *)
(* afterwards: no later call moves, replaces or downgrades it.              *)
HandlesDenote ==
  LET pt == Finish(b)
  IN \A n \in DOMAIN issued :
       /\ issued[n].index + 1 \in DOMAIN pt.inputs
       /\ Serves(pt.inputs[issued[n].index + 1], issued[n].value)

(* A separate pure value or a withdrawal has an input to itself: no other   *)
(* call is ever given the same Argument.                                    *)
SeparateInputs ==
  \A m, n \in DOMAIN issued :
    issued[m].separate = "yes" /\ issued[m].index = issued[n].index => m = n

(* A builder never asks for more access than some caller did: an input that *)
(* is mutable was asked for as mutable.                                     *)
NoEscalation ==
  \A k \in DOMAIN b.inputs :
    b.inputs[k].kind = "Object" /\ b.inputs[k].val.mutable = "yes" =>
      \E n \in DOMAIN issued :
        /\ issued[n].value.kind = "Object"
        /\ issued[n].value.val.id = b.inputs[k].val.id
        /\ issued[n].value.val.mutable = "yes"

(* Obj has an answer for every pair of requests for one object: one input   *)
(* that serves both, or the error about mismatched kinds.                   *)
ObjAnswers == outcome # "panic"
=============================================================================
