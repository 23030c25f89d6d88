----------------------------- MODULE BareResult -----------------------------
(***************************************************************************)
(* The results of src/sys/Result.h that keep no union: result<void, void>, *)
(* which is a status, and nullable_value_result, under result<T*, void>,   *)
(* whose value says by being null that it is an error, or was taken.  A    *)
(* moved-from value is null if it owns what it points to, and keeps its    *)
(* value if it is a plain pointer.                                         *)
(***************************************************************************)
EXTENDS Integers

CONSTANTS
  Vars,     \* the result variables of the caller
  Tokens,   \* values; for void, which success it was
  Failure,  \* an error; null
  Nothing   \* the empty status, of void only

VARIABLES
  form,     \* the kind of result: "void", "owner" or "pointer"
  born,     \* the variables that exist
  content,  \* content[r]: a token, Failure or Nothing
  taken,    \* taken[t]: how often callers were given t
  did       \* the last operation: [op, on, from]

vars == <<form, born, content, taken, did>>

TypeOK ==
  /\ form \in {"void", "owner", "pointer"}
  /\ born \subseteq Vars
  /\ content \in [Vars -> Tokens \cup {Failure, Nothing}]
  /\ taken \in [Tokens -> Nat]

Init ==
  /\ form \in {"void", "owner", "pointer"}
  /\ born = {}
  /\ content = [r \in Vars |-> Nothing]
  /\ taken = [t \in Tokens |-> 0]
  /\ did = [op |-> "none"]

Did(op, r, other) == did' = [op |-> op, on |-> r, from |-> other]

Good(r) == r \in born /\ content[r] \in Tokens
Bad(r) == r \in born /\ content[r] = Failure

Unused == {t \in Tokens : taken[t] = 0 /\ \A r \in Vars : content[r] # t}

(* What is left where a value was moved from, or a status taken.           *)
Rest(r) == IF form = "void" THEN Nothing
           ELSE IF form = "owner" THEN Failure ELSE content[r]

Construct(r) ==
  /\ r \notin born
  /\ born' = born \cup {r}
  /\ \E c \in Unused \cup {Failure} : content' = [content EXCEPT ![r] = c]
  /\ Did("construct", r, r)
  /\ UNCHANGED <<form, taken>>

(* Both move constructors leave nothing behind, not even a plain pointer:  *)
(* they take the status, or exchange values with a null.                   *)
ConstructFromKeeping(r, other) ==
  /\ r \notin born /\ other \in born
  /\ born' = born \cup {r}
  /\ content' = [content EXCEPT ![r] = content[other], ![other] = Rest(other)]
  /\ Did("move", r, other)
  /\ UNCHANGED <<form, taken>>

ConstructFrom(r, other) ==
  /\ r \notin born /\ other \in born
  /\ born' = born \cup {r}
  /\ content' = [content EXCEPT ![r] = content[other],
                                ![other] = IF form = "void" THEN Nothing ELSE Failure]
  /\ Did("move", r, other)
  /\ UNCHANGED <<form, taken>>

(* Assignment swaps.                                                       *)
Swap(r, other, op) ==
  /\ {r, other} \subseteq born
  /\ content' = [content EXCEPT ![r] = content[other], ![other] = content[r]]
  /\ Did(op, r, other)
  /\ UNCHANGED <<form, born, taken>>

(* expect, move and move_or of a good result.                              *)
Take(r) ==
  /\ Good(r)
  /\ taken' = [taken EXCEPT ![content[r]] = @ + 1]
  /\ content' = [content EXCEPT ![r] = Rest(r)]
  /\ Did("take", r, r)
  /\ UNCHANGED <<form, born>>

(* expect_err of a bad one: void forgets, a null stays.                    *)
TakeError(r) ==
  /\ Bad(r)
  /\ content' = [content EXCEPT ![r] = IF form = "void" THEN Nothing ELSE @]
  /\ Did("take", r, r)
  /\ UNCHANGED <<form, born, taken>>

Drop(r) ==
  /\ r \in born
  /\ born' = born \ {r}
  /\ content' = [content EXCEPT ![r] = Nothing]
  /\ Did("drop", r, r)
  /\ UNCHANGED <<form, taken>>

(* A pointer is taken as often as the caller likes; bound: twice.          *)
Next ==
  \/ \E r \in Vars :
       \/ Construct(r) \/ TakeError(r) \/ Drop(r)
       \/ (Good(r) => taken[content[r]] < 2) /\ Take(r)
  \/ \E r, other \in Vars :
       ConstructFrom(r, other) \/ \E op \in {"assign", "swap"} : Swap(r, other, op)

Spec == Init /\ [][Next]_vars

-----------------------------------------------------------------------------
(* Properties.                                                             *)

(* However results are moved, assigned and swapped, to themselves too, a   *)
(* value is in one of them at a time; it is taken once, except for a plain *)
(* pointer, which stays good; and only taking it or ending its variable    *)
(* makes it go away.                                                       *)
MovesExact ==
  /\ [](\A q, r \in Vars : content[q] \in Tokens /\ content[q] = content[r] => q = r)
  /\ [](form # "pointer" => \A t \in Tokens : taken[t] <= 1)
  /\ [][\A r \in Vars :
          content[r] \in Tokens /\ (\A q \in Vars : content'[q] # content[r]) =>
            did'.on = r /\ did'.op \in {"take", "drop"}]_vars

=============================================================================
