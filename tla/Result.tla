------------------------------- MODULE Result -------------------------------
(***************************************************************************)
(* sys::result (src/sys/Result.h): a tagged union of a value and an error  *)
(* with a third, empty status.  Storage is raw memory, so every object in  *)
(* it must be constructed and destroyed by hand, in step with the status,  *)
(* also when a move constructor throws half way.  Values and errors are    *)
(* objects; references and void, which need no lifetime, are left out.     *)
(***************************************************************************)
CONSTANTS
  Vars,      \* the result variables of the caller
  Tmp,       \* the temporary of swap
  Tokens,    \* what objects hold: a token moves, it is never copied
  Raw,       \* storage without an object
  Sizes      \* "smaller", "equal", "larger": the value's size to the error's

VARIABLES
  res,       \* the variables: status, storage, and whether a lifetime broke
  size,      \* how the value's size compares with the error's
  last       \* the last operation, for the properties: [op, on, from, threw]

vars == <<res, size, last>>

Kinds == {"ok", "error"}
Statuses == Kinds \cup {"empty", "unborn"}
Object(kind, token) == [kind |-> kind, token |-> token]

TypeOK ==
  /\ res.status \in [Vars \cup {Tmp} -> Statuses]
  /\ res.storage \in [Vars \cup {Tmp} -> {Raw} \cup [kind : Kinds, token : Tokens]]
  /\ size \in Sizes

Init ==
  /\ res = [status |-> [r \in Vars \cup {Tmp} |-> "unborn"],
            storage |-> [r \in Vars \cup {Tmp} |-> Raw],
            broken |-> FALSE]
  /\ size \in Sizes
  /\ last = [op |-> "none", on |-> Tmp, from |-> Tmp, threw |-> FALSE]

-----------------------------------------------------------------------------
(* Steps on the variables s of an operation.                               *)

SetStatus(s, r, status) == [s EXCEPT !.status[r] = status]

(* construct_at over an object, and destroy_at without one of the type it  *)
(* is given, break a lifetime.                                             *)
ConstructAt(s, r, object) ==
  [s EXCEPT !.storage[r] = object, !.broken = @ \/ s.storage[r] # Raw]

DestroyAt(s, r, kind) ==
  [s EXCEPT !.storage[r] = Raw,
            !.broken = @ \/ s.storage[r] = Raw \/ s.storage[r].kind # kind]

(* ctor_ok and ctor_err.                                                   *)
Ctor(s, r, object) == SetStatus(ConstructAt(s, r, object), r, object.kind)

(* move(unsafe) and err(unsafe): the object is moved out, the source left  *)
(* empty and what remains in it destroyed.                                 *)
TakeKeeping(s, r) == SetStatus(s, r, "empty")

Take(s, r) == DestroyAt(SetStatus(s, r, "empty"), r, s.status[r])

(* The destructor's switch on the status.                                  *)
Destroy(s, r) ==
  IF s.status[r] \in Kinds THEN DestroyAt(s, r, s.status[r]) ELSE s

(* How a step may end: [s, threw].                                         *)
Returned(s) == [s |-> s, threw |-> FALSE]
Threw(s) == [s |-> s, threw |-> TRUE]

(* The switch on other's status in the move constructor and in operator=:  *)
(* moving the object out may throw, and so may constructing it anew.       *)
MoveIn(s, r, other) ==
  IF s.status[other] \in Kinds
  THEN {Returned(Ctor(Take(s, other), r, s.storage[other])),
        Threw(Take(s, other)),
        Threw(s)}
  ELSE {Returned(SetStatus(s, other, "empty"))}

MoveConstruct(s, r, other) == MoveIn(SetStatus(s, r, "empty"), r, other)

AssignUnguarded(s, r, other) ==
  MoveIn(SetStatus(Destroy(s, r), r, "empty"), r, other)

(* operator=.                                                              *)
Assign(s, r, other) ==
  IF r = other THEN {Returned(s)}
  ELSE MoveIn(SetStatus(Destroy(s, r), r, "empty"), r, other)

(* Go on to the next step unless the one before threw; the temporary is    *)
(* destroyed in any case.                                                  *)
Then(ends, Step(_)) ==
  UNION {IF e.threw THEN {e} ELSE Step(e.s) : e \in ends}

Unborn(s, r) == SetStatus(Destroy(s, r), r, "unborn")

(* swap moves first whichever needs the smaller of the two types.          *)
FirstMoved(s, a, b) ==
  IF \/ s.status[b] = "ok" /\ size = "smaller"
     \/ s.status[b] = "error" /\ size \in {"equal", "larger"}
     \/ s.status[b] = "empty"
  THEN b ELSE a

SwapEnds(s, a, b) ==
  LET first == FirstMoved(s, a, b)
      second == IF first = a THEN b ELSE a
      ends == Then(Then(MoveConstruct(s, Tmp, first),
                        LAMBDA t : Assign(t, first, second)),
                   LAMBDA t : Assign(t, second, Tmp))
  IN {[e EXCEPT !.s = Unborn(@, Tmp)] : e \in ends}

-----------------------------------------------------------------------------
(* Operations of the caller.                                               *)

Alive(r) == res.status[r] # "unborn"

Held == {res.storage[r].token : r \in {q \in Vars : res.storage[q] # Raw}}

Did(op, r, from, threw) ==
  last' = [op |-> op, on |-> r, from |-> from, threw |-> threw]

Ends(op, r, from, ends) ==
  \E e \in ends : res' = e.s /\ Did(op, r, from, e.threw)

(* A new object; its constructor may throw before it exists.               *)
Construct(r) ==
  /\ ~Alive(r)
  /\ \E kind \in Kinds, token \in Tokens \ Held :
       res' = Ctor(SetStatus(res, r, "empty"), r, Object(kind, token))
  /\ Did("construct", r, r, FALSE)
  /\ UNCHANGED size

(* A move constructor that throws leaves no variable behind.               *)
ConstructFrom(r, other) ==
  /\ ~Alive(r) /\ Alive(other)
  /\ Ends("move", r, other,
          {IF e.threw THEN [e EXCEPT !.s = SetStatus(@, r, "unborn")] ELSE e :
             e \in MoveConstruct(res, r, other)})
  /\ UNCHANGED size

AssignFrom(r, other) ==
  /\ Alive(r) /\ Alive(other)
  /\ Ends("move", r, other, Assign(res, r, other))
  /\ UNCHANGED size

(* move, expect, move_or, err, expect_err, and the conversion to a result  *)
(* without error type, which leaves an error where it is.                  *)
TakeOut(r) ==
  /\ res.status[r] \in Kinds
  /\ Ends("take", r, r, {Returned(Take(res, r)), Threw(res)})
  /\ UNCHANGED size

(* _res_movret and _res_movcoret: moved into a temporary, taken from there *)
(* whichever way the function goes on.                                     *)
MovRet(r) ==
  /\ res.status[r] \in Kinds
  /\ Ends("take", r, r,
          {[e EXCEPT !.s = Unborn(@, Tmp)] :
             e \in Then(MoveConstruct(res, Tmp, r),
                       LAMBDA t : {Returned(Take(t, Tmp)), Threw(t)})})
  /\ UNCHANGED size

Swap(a, b) ==
  /\ Alive(a) /\ Alive(b)
  /\ Ends("swap", a, b, SwapEnds(res, a, b))
  /\ UNCHANGED size

Drop(r) ==
  /\ Alive(r)
  /\ res' = Unborn(res, r)
  /\ Did("drop", r, r, FALSE)
  /\ UNCHANGED size

Next ==
  \/ \E r \in Vars : Construct(r) \/ TakeOut(r) \/ MovRet(r) \/ Drop(r)
  \/ \E r, other \in Vars :
       ConstructFrom(r, other) \/ AssignFrom(r, other) \/ Swap(r, other)

Spec == Init /\ [][Next]_vars

-----------------------------------------------------------------------------
(* Properties.                                                             *)

Content(r) == <<res.status[r], res.storage[r]>>

(* Whatever throws, no object is destroyed twice, built over or forgotten  *)
(* in storage that its status says is free, and none is in two places.     *)
Lifetimes ==
  /\ ~res.broken
  /\ \A r \in Vars \cup {Tmp} :
       IF res.status[r] \in Kinds
       THEN res.storage[r] # Raw /\ res.storage[r].kind = res.status[r]
       ELSE res.storage[r] = Raw
  /\ \A q, r \in Vars : q # r /\ res.storage[q] # Raw => res.storage[q] # res.storage[r]

(* A move hands the content over, also an error or nothing, and leaves the *)
(* source empty; a swap exchanges contents in whichever order it moves     *)
(* them, a variable with itself included.  One that throws leaves content  *)
(* where it was or loses it, and never changes a third variable.           *)
MovesExact ==
  [][\A r, other \in Vars :
       last'.op \in {"move", "swap"} /\ last'.on = r /\ last'.from = other =>
         /\ ~last'.threw /\ r # other =>
              /\ Content(r)' = Content(other)
              /\ last'.op = "swap" => Content(other)' = Content(r)
              /\ last'.op = "move" => Content(other)' = <<"empty", Raw>>
         /\ ~last'.threw /\ r = other => Content(r)' = Content(r)
         /\ last'.threw => Held' \subseteq Held
         /\ \A q \in Vars \ {r, other} : Content(q)' = Content(q)]_vars

=============================================================================
