------------------------------ MODULE CmdTree ------------------------------
(***************************************************************************)
(* The tree of commands of CommandParser/cmd_hier.c: parameters that are   *)
(* words (CMD), values the user gives (LEAF) or the word "no" (NO_CMD),    *)
(* each with a parent and perhaps an application callback.  The tree is    *)
(* built before the shell starts and does not change; what a program       *)
(* registers is the value of the constants.                                *)
(***************************************************************************)
EXTENDS SerBuffer, SequencesExt

CONSTANTS
    Param, Leaf, NoCmd,
    Handler,        \* parameters with a callback
    Checked,        \* leaves with a validation that may refuse a value
    Lister,         \* parameters with a disp_callback
    Brief,          \* those with the show extension "brief"
    History,        \* those whose callback is show_history_callback
    parent,
    root, do_hook, config,
    DoOptions,      \* the parameters do_hook borrows from root
    Value           \* what a user may type for a leaf

ASSUME TreeAssumption ==
    /\ {root, do_hook, config} \subseteq Param /\ root # do_hook
    /\ NULL \notin Param
    /\ DoOptions \cup Leaf \cup NoCmd \cup Handler \subseteq Param
    /\ Checked \subseteq Leaf /\ NoCmd \cup Brief \cup History \subseteq Handler
    /\ parent \in [Param -> Param \cup {NULL}]
    /\ {p \in Param : parent[p] = NULL} = {root, do_hook}
    /\ parent[config] = root /\ config \in Handler
    /\ {root, do_hook} \cap (Handler \cup Leaf) = {}
    /\ Leaf \cap NoCmd = {} /\ config \notin Brief

\* A parameter is registered below one that is there, or below nothing yet:
\* whichever parameters one takes, the parent of one of them is not among them.
ASSUME WellFoundedAssumption ==
    \A S \in SUBSET Param : S # {} => \E p \in S : parent[p] \notin S

\* init_libcli fills the options of do_hook by hand, with words of the root,
\* and nothing is registered below it; support_cmd_negation asserts that a "no"
\* is put below config only.
ASSUME DoHookAssumption ==
    /\ \A p \in Param : parent[p] # do_hook
    /\ \A p \in DoOptions : parent[p] = root
    /\ DoOptions \cap (NoCmd \cup {config}) = {}

Children(p) == {q \in Param : parent[q] = p}

\* What find_matching_param may find below p, the three capabilities aside.
\* A "no" offers its siblings, do_hook some children of root.
options(p) ==
    CASE p \in NoCmd  -> Children(parent[p]) \ NoCmd
      [] p = do_hook  -> DoOptions
      [] OTHER        -> Children(p)

\* The first registration below a parameter gives it "/", "?" and ".".
\* do_hook and "no" have "?" in the place of "/".
HasSuboptions(p) == options(p) # {} \/ p \in Brief \cup NoCmd \cup {do_hook}
HasMode(p) == Children(p) # {} \/ p \in Brief

\* From below the root down to p.
path[p \in Param] ==
    IF p \in {root, do_hook} THEN <<>> ELSE Append(path[parent[p]], p)

get_current_branch_hook(p) == Head(path[p])

\* The leaves among them.
LeavesTo[p \in Param] ==
    IF p \in {root, do_hook} THEN <<>>
    ELSE IF p \in Leaf THEN Append(LeavesTo[parent[p]], p)
    ELSE LeavesTo[parent[p]]

\* Tokens that find_matching_param or the validation of a leaf refuses.
MayRefuse(p) ==
    options(p) \cap Leaf = {} \/ options(p) \cap Checked # {}
==============================================================================
