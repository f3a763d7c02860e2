---------------------------- MODULE NodeManage ----------------------------
(***************************************************************************)
(* The directory of the onion network as the REST server keeps it          *)
(* (src/server/node_manage.cc): a protobuf NodeList, that is a sequence    *)
(* of nodes, each a github_id and the ip_addr it was first seen at.  The   *)
(* operators are the methods of class NodeManage on that sequence.         *)
(***************************************************************************)
EXTENDS Integers, SequencesExt

Node(g, ip) == [github_id |-> g, ip_addr |-> ip]

\* First index whose node has this id (counted from 1; 0 is the code's -1).
find_idx(list, g) == SelectInSeq(list, LAMBDA n : n.github_id = g)

\* Wrong versions of add_user, for mutants: without the look-up; with the
\* address brought up to date.
add_user_always(list, g, ip) == Append(list, Node(g, ip))
add_user_moves(list, g, ip) ==
    IF find_idx(list, g) = 0 THEN Append(list, Node(g, ip))
    ELSE [list EXCEPT ![find_idx(list, g)].ip_addr = ip]

\* A known id is left alone: its address is never updated.
add_user(list, g, ip) ==
    IF find_idx(list, g) = 0 THEN Append(list, Node(g, ip)) ELSE list

\* Wrong versions of delete_user, for mutants: the last node instead of the
\* one found; idx > 0 for idx != -1.
delete_user_last(list, g) ==
    IF find_idx(list, g) = 0 THEN list ELSE RemoveAt(list, Len(list))
delete_user_not_first(list, g) ==
    IF find_idx(list, g) <= 1 THEN list ELSE RemoveAt(list, find_idx(list, g))

\* DeleteSubrange(idx, 1) keeps the order of the nodes that remain.
delete_user(list, g) ==
    IF find_idx(list, g) = 0 THEN list ELSE RemoveAt(list, find_idx(list, g))

\* What a reader of get_binary() obtains when the order does not matter.
Entries(list) == ToSet(list)

\* No two nodes of a list share an id.
UniqueIds(list) ==
    \A i, j \in DOMAIN list : list[i].github_id = list[j].github_id => i = j
===========================================================================
