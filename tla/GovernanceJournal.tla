-------------------------- MODULE GovernanceJournal --------------------------
(***************************************************************************)
(* What the compliance ledger promises its readers, without hashes, locks  *)
(* or transactions: one numbered journal per tenant, entries added only at *)
(* the end and never for an action that did not take effect.  An action's  *)
(* effect may precede its entry, or never get one; the reverse cannot be.  *)
(***************************************************************************)
EXTENDS Naturals, FiniteSets

CONSTANTS Actions, Tenants

VARIABLES
  journal,  \* journal[t]: the entries of tenant t
  effect    \* what became of an action: "none" yet, "committed", "lost"

jvars == <<journal, effect>>

Entry == [no : Nat, event : Actions]

JInit ==
  /\ journal = [t \in Tenants |-> {}]
  /\ effect = [a \in Actions |-> "none"]

Entered(a) == \E t \in Tenants : \E e \in journal[t] : e.event = a

AddEntry(a, t) ==
  /\ ~Entered(a)
  /\ journal' = [journal EXCEPT ![t] = @ \cup {[no |-> Cardinality(@) + 1, event |-> a]}]

TakeEffect(a) ==
  /\ effect[a] = "none"
  /\ effect' = [effect EXCEPT ![a] = "committed"]
  /\ UNCHANGED journal

Enter(a, t) ==
  /\ effect[a] = "committed"
  /\ AddEntry(a, t)
  /\ UNCHANGED effect

TakeEffectWithEntry(a, t) ==
  /\ effect[a] = "none"
  /\ effect' = [effect EXCEPT ![a] = "committed"]
  /\ AddEntry(a, t)

Lose(a) ==
  /\ effect[a] = "none"
  /\ effect' = [effect EXCEPT ![a] = "lost"]
  /\ UNCHANGED journal

JNext ==
  \E a \in Actions :
    \/ TakeEffect(a)
    \/ Lose(a)
    \/ \E t \in Tenants : Enter(a, t) \/ TakeEffectWithEntry(a, t)

JSpec == JInit /\ [][JNext]_jvars
=============================================================================
