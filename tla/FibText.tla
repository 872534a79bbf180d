------------------------------ MODULE FibText ------------------------------
(***************************************************************************)
(* The data of the Fibonacci application (Project/simple-nodejs): the      *)
(* texts users submit, what parseInt and PostgreSQL make of a text, and    *)
(* the number the worker computes for it.                                  *)
(***************************************************************************)
EXTENDS Integers

CONSTANTS
    Keys,       \* the texts a user may submit as "index"
    Numeric,    \* the texts parseInt reads a number in ("7", "7abc")
    Value,      \* that number, for every text of Numeric
    Absent,     \* no field of this name in the Redis hash
    Pending     \* the field holds the placeholder "Nothing yet!"

ASSUME TextAssumption ==
    /\ Numeric \subseteq Keys
    /\ Value \in [Numeric -> Int]
    /\ Absent \notin Int
    /\ Pending \notin Int
    /\ Absent # Pending

(***************************************************************************)
(* The worker's fib: 1 below 2, negative numbers included.                 *)
(***************************************************************************)
fibNat[n \in Nat] == IF n < 2 THEN 1 ELSE fibNat[n - 1] + fibNat[n - 2]
fib(i) == IF i < 2 THEN 1 ELSE fibNat[i]

Answer(k) == fib(Value[k])

(***************************************************************************)
(* parseInt(index) > 40 is false for NaN, so only a number can be refused. *)
(***************************************************************************)
TooHigh41(k) == k \in Numeric /\ Value[k] > 41   \* bug: one too far
TooHigh(k) == k \in Numeric /\ Value[k] > 40

(* The texts the service is meant to take.                                 *)
Acceptable == {k \in Keys : k \in Numeric => Value[k] <= 40}

(* What TLAPS cannot prove of a recursive function, and TLC evaluates.     *)
ASSUME FibAssumption == \A k \in Numeric \cap Acceptable : Answer(k) \in Int

Entry == {Absent, Pending} \cup Int
=============================================================================
