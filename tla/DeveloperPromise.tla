--------------------------- MODULE DeveloperPromise --------------------------
(***************************************************************************)
(* What a developer may count on, whatever a generation run does inside:   *)
(* the test files of the source tree are theirs and change by their own    *)
(* edits and by the proposals they take, nothing else; a proposal is       *)
(* replaced or removed at once, code and label together; and one that is   *)
(* labelled accepted has every assert of what it replaces that they did    *)
(* not release.  A fault (a kill, an exception outside the "try", a write  *)
(* to another file) harms one file or one proposal, and only those of the  *)
(* command in progress.  Generation implements this specification.         *)
(***************************************************************************)
EXTENDS Naturals

CONSTANTS
    Classes,     \* test classes, each a file of the tree
    Paths,       \* test files
    Contents,    \* contents of a file, as sets of asserts; {} when there is none
    AuthChoices  \* sets of asserts a person may release

VARIABLES
    tree,     \* file -> its content, as it will be when the command is over
    store,    \* class -> its proposal
    command,  \* the command in progress
    faults    \* faults so far

vars == <<tree, store, command, faults>>

NoProposal == [state |-> "none", code |-> {}, label |-> "none"]
Torn == [state |-> "torn", code |-> {}, label |-> "none"]
Proposal(x, label) == [state |-> "whole", code |-> x, label |-> label]

NoCommand == [does |-> "nothing", cls |-> "", released |-> {}]
Generating(c, released) == [does |-> "generate", cls |-> c, released |-> released]
Discarding(c) == [does |-> "discard", cls |-> c, released |-> {}]

Init ==
    /\ tree \in [Paths -> Contents]
    /\ store = [c \in Classes |-> NoProposal]
    /\ command = NoCommand
    /\ faults = 0

-----------------------------------------------------------------------------
(* between commands *)

Edit(p, x) ==
    /\ command = NoCommand
    /\ tree' = [tree EXCEPT ![p] = x]
    /\ UNCHANGED <<store, command, faults>>

Start(c, released) ==
    /\ command = NoCommand
    /\ command' = Generating(c, released)
    /\ UNCHANGED <<tree, store, faults>>

\* A proposal is taken as it is shown, and then discarded.  Of a torn one the code
\* may be of one run and the label of another.
Take(c, x) ==
    /\ command = NoCommand
    /\ store[c].state # "none"
    /\ store[c].state = "whole" => x = store[c].code
    /\ tree' = [tree EXCEPT ![c] = x]
    /\ command' = Discarding(c)
    /\ UNCHANGED <<store, faults>>

Refuse(c) ==
    /\ command = NoCommand
    /\ command' = Discarding(c)
    /\ UNCHANGED <<tree, store, faults>>

-----------------------------------------------------------------------------
(* a command *)

\* What a run builds on: the waiting proposal, or the file.
Basis(c) == IF store[c].state = "whole" THEN store[c].code ELSE tree[c]

Save(x, label) ==
    /\ command.does = "generate"
    /\ x # {}
    /\ label = "accepted" /\ store[command.cls].state # "torn" =>
          Basis(command.cls) \ command.released \subseteq x
    /\ store' = [store EXCEPT ![command.cls] = Proposal(x, label)]
    /\ UNCHANGED <<tree, command, faults>>

\* The command may end with it.
Drop ==
    /\ command.does = "discard"
    /\ store' = [store EXCEPT ![command.cls] = NoProposal]
    /\ command' \in {command, NoCommand}
    /\ UNCHANGED <<tree, faults>>

End ==
    /\ command # NoCommand
    /\ command' = NoCommand
    /\ UNCHANGED <<tree, store, faults>>

Spoil(p, x) == tree' = [tree EXCEPT ![p] = x] /\ UNCHANGED store

Break ==
    /\ command.does = "generate"
    /\ store' = [store EXCEPT ![command.cls] = Torn]
    /\ UNCHANGED tree

\* A fault, harmless or not, of which the command ends or not.
Fault ==
    /\ command # NoCommand
    /\ faults' = faults + 1
    /\ command' \in {command, NoCommand}
    /\ \/ UNCHANGED <<tree, store>>
       \/ \E p \in Paths, x \in Contents : command.does = "generate" /\ Spoil(p, x)
       \/ Break

Next ==
    \/ \E p \in Paths, x \in Contents : Edit(p, x)
    \/ \E c \in Classes :
         \/ \E released \in AuthChoices : Start(c, released)
         \/ \E x \in Contents : Take(c, x)
         \/ Refuse(c)
    \/ \E x \in Contents, label \in {"accepted", "needs_review"} : Save(x, label)
    \/ Drop
    \/ End
    \/ Fault

Spec == Init /\ [][Next]_vars
=============================================================================
