------------------------------- MODULE CertStack -------------------------------
(***************************************************************************)
(* The certificate stack of a TAL's thread: cert_stack.c.                  *)
(*                                                                         *)
(* Four lists, all with their top first: the certificates that are the     *)
(* ancestors of the one being validated (x509s), their metadata (metas),   *)
(* the repository levels (levels) and the deferred certificates (defers).  *)
(* A separator in defers marks where the children of a stacked certificate *)
(* end; popping it pops the certificate.                                   *)
(***************************************************************************)
EXTENDS Naturals, Sequences

CONSTANTS
  Freed,   \* a level node that was freed while still listed
  Crit     \* the process aborted: pr_crit()

Separator == [type |-> "SEPARATOR"]

certstack_create ==
  [x509s |-> <<>>, metas |-> <<>>, levels |-> <<>>, defers |-> <<>>]

Push(e, list) == <<e>> \o list

(* The level of the pushed node.  A freed head is read like any other. *)
PushedLevels(stack, level) ==
  IF stack.levels = <<>> THEN {0}
  ELSE IF Head(stack.levels) = Freed THEN {0, level}
  ELSE {IF level > Head(stack.levels) THEN level ELSE 0}

(* The stacks x509stack_push() may leave when it succeeds. *)
x509stack_push(stack, cert, level) ==
  {[x509s  |-> Push(cert, stack.x509s),
    metas  |-> Push(cert, stack.metas),
    levels |-> Push(l, stack.levels),
    defers |-> Push(Separator, stack.defers)] : l \in PushedLevels(stack, level)}

(* It fails after it listed the level node, and frees that node.  *)
x509stack_push_fails(stack) == [stack EXCEPT !.levels = Push(Freed, @)]

x509stack_pop(stack) ==
  IF stack.x509s = <<>> \/ stack.metas = <<>> \/ stack.levels = <<>>
  THEN Crit
  ELSE [stack EXCEPT !.x509s = Tail(@), !.metas = Tail(@), !.levels = Tail(@)]


(* Reverts a push.  The head of defers is taken for its separator. *)
x509stack_cancel(stack) ==
  LET popped == x509stack_pop(stack)
  IN IF popped = Crit \/ stack.defers = <<>> THEN Crit
     ELSE [popped EXCEPT !.defers = Tail(@)]

(* One round of the loop of deferstack_pop(): a separator pops a certificate
   of x509s.                                                                *)
AtSeparator(stack) == stack.defers # <<>> /\ Head(stack.defers) = Separator

PopSeparator(stack) ==
  LET popped == x509stack_pop(stack)
  IN IF popped = Crit THEN Crit ELSE [popped EXCEPT !.defers = Tail(@)]

deferstack_pop(stack) ==
  [deferred |-> Head(stack.defers).deferred,
   stack |-> [stack EXCEPT !.defers = Tail(@)]]

deferstack_is_empty(stack) == stack.defers = <<>>

(* The level a child repository starts from; a freed node may hold any. *)
x509stack_peek_level(stack, levels) ==
  IF stack.levels = <<>> THEN {0}
  ELSE IF Head(stack.levels) = Freed THEN levels
  ELSE {Head(stack.levels)}
================================================================================
