------------------------------- MODULE Tries -------------------------------
(* The two prefix trees of lab-10, loaded with the same routes: the plain trie of
   trie.c, one level for every bit, and the reduced one of reducedTrie.c, whose
   inner nodes name the bit to compare and whose leaves hold the routes.

   An address has Width bits, bit 0 the highest. A route is of length 1 to
   Width - 1: shifts by the width of the word, which lengths 0 and Width need, are
   undefined. The ports are the numbers of the routes in the order of insertion,
   so that every answer tells its route. *)
EXTENDS Integers, Sequences, FiniteSets, SequencesExt

CONSTANTS
    Width,      \* IP_LEN
    MaxRoutes   \* bound: routes that are inserted

ASSUME TrieAssumption == Width \in Nat /\ Width >= 2 /\ MaxRoutes \in Nat

VARIABLES
    table,    \* the routes that have been read: [ip, mask, port]
    trie,     \* the plain trie: node -> [match, port]; a node is the path to it
    reduced   \* the reduced trie

vars == <<table, trie, reduced>>

Ip == 0 .. 2^Width - 1

Lengths == 1 .. Width - 1

NULL_PORT == 0

\* EXTRACT_BIT
Bit(ip, i) == (ip \div 2^(Width - 1 - i)) % 2

Path(ip, len) == [i \in 1 .. len |-> Bit(ip, i - 1)]

Masked(ip, mask) == (ip \div 2^(Width - mask)) * 2^(Width - mask)

-----------------------------------------------------------------------------
(* trie.c *)

pt_new_node == [match |-> 0, port |-> 0]

\* Mutant: the nodes on the way lose the routes they have.
ForgetOnTheWay(nodes, ip, mask, port) ==
    [n \in DOMAIN nodes \cup {Path(ip, i) : i \in 0 .. mask} |->
        IF n = Path(ip, mask) THEN [match |-> 1, port |-> port]
        ELSE IF n \in {Path(ip, i) : i \in 0 .. mask} THEN pt_new_node ELSE nodes[n]]

(* The nodes on the way are made where they are missing. *)
pt_insert_node(nodes, ip, mask, port) ==
    [n \in DOMAIN nodes \cup {Path(ip, i) : i \in 0 .. mask} |->
        IF n = Path(ip, mask) THEN [match |-> 1, port |-> port]
        ELSE IF n \in DOMAIN nodes THEN nodes[n] ELSE pt_new_node]

(* The deepest match on the way of ip behind which ip has no bit set. *)
pt_find_route(nodes, ip) ==
    LET found == {i \in 1 .. Width : /\ Path(ip, i) \in DOMAIN nodes
                                     /\ nodes[Path(ip, i)].match = 1
                                     /\ \A j \in i .. Width - 1 : Bit(ip, j) = 0} IN
    IF found = {} THEN NULL_PORT ELSE nodes[Path(ip, Max(found))].port

-----------------------------------------------------------------------------
(* reducedTrie.c; a tree is Null, a leaf or an inner node. *)

Null == [kind |-> "null"]

\* new_rtInode, new_rtLeaf
Inode(bit, left, right) == [kind |-> "inode", cmpBit |-> bit, left |-> left, right |-> right]

Leaf(ip, mask, port) == [kind |-> "leaf", ip |-> ip, mask |-> mask, port |-> port]

(* The last bit of the common prefix, -1 if there is none. *)
shared_prefix(ip1, ip2) ==
    Min({i \in 0 .. Width : i = Width \/ Bit(ip1, i) # Bit(ip2, i)}) - 1

RECURSIVE find_max_ip(_)
find_max_ip(t) ==
    CASE t.kind = "null" -> 0
      [] t.kind = "leaf" -> t.ip
      [] OTHER -> find_max_ip(IF t.right = Null THEN t.left ELSE t.right)

(* The search for the least address starts from 0xFFFF, half of the bits. *)
HalfWord == 2^(Width \div 2) - 1

RECURSIVE find_min_ip(_)
find_min_ip(t) ==
    CASE t.kind = "null" -> HalfWord
      [] t.kind = "leaf" -> IF t.ip < HalfWord THEN t.ip ELSE HalfWord
      [] OTHER -> find_min_ip(IF t.left = Null THEN t.right ELSE t.left)

(* What is read as the cmpBit of a node: of a leaf, which has no such field, its
   address. *)
CmpBitOf(t) == IF t.kind = "leaf" THEN t.ip ELSE t.cmpBit

(* An inner node to be put above p's child on the way of ip. *)
NewRight(p, ip) ==
    LET cmp == shared_prefix(ip, find_min_ip(p.right)) IN
    IF ip < find_min_ip(p.right) /\ cmp < CmpBitOf(p.left)
    THEN Inode(cmp + 1, Null, p.right) ELSE p.right

NewLeft(p, ip) ==
    LET cmp == shared_prefix(ip, find_max_ip(p.left)) IN
    IF ip > find_max_ip(p.left) /\ cmp < p.left.cmpBit
    THEN Inode(cmp + 1, p.left, Null) ELSE p.left

\* Mutant: of two routes with one address the shorter one is where the longer is due.
SameAddressShorter(q, parentBit, ip, mask, port) ==
    IF parentBit >= mask THEN q
    ELSE IF q.mask = mask THEN Leaf(q.ip, mask, port)
    ELSE IF q.mask < mask THEN Inode(mask, q, Leaf(ip, mask, port))
    ELSE Inode(q.mask, Leaf(ip, mask, port), q)

(* The leaf q below an inner node that compares parentBit has the same address. *)
SameAddress(q, parentBit, ip, mask, port) ==
    IF parentBit >= mask THEN q
    ELSE IF q.mask = mask THEN Leaf(q.ip, mask, port)
    ELSE IF q.mask < mask THEN Inode(mask, Leaf(ip, mask, port), q)
    ELSE Inode(q.mask, q, Leaf(ip, mask, port))

SplitLeaf(q, ip, mask, port) ==
    LET bit == shared_prefix(q.ip, ip) + 1  new == Leaf(ip, mask, port) IN
    IF Bit(ip, bit) = 1 THEN Inode(bit, q, new) ELSE Inode(bit, new, q)

(* Below p, a route for the masked address ip. *)
RECURSIVE InsertBelow(_, _, _, _)
InsertBelow(p, ip, mask, port) ==
    LET Child(c) ==
            CASE c.kind = "null" -> Leaf(ip, mask, port)
              [] c.kind = "inode" -> InsertBelow(c, ip, mask, port)
              [] c.kind = "leaf" /\ c.ip = ip -> SameAddress(c, p.cmpBit, ip, mask, port)
              [] OTHER -> SplitLeaf(c, ip, mask, port)
    IN  IF Bit(ip, p.cmpBit) = 1
        THEN [p EXCEPT !.right = Child(IF @.kind = "inode" THEN NewRight(p, ip) ELSE @)]
        ELSE [p EXCEPT !.left = Child(IF @.kind = "inode" THEN NewLeft(p, ip) ELSE @)]

rt_Insert(root, ip, mask, port) == InsertBelow(root, Masked(ip, mask), mask, port)

(* IP_LEN >> mask, meant to be the bits behind the prefix, is at most one bit. *)
IgnoredBits(mask) == Width \div 2^mask

LeafMatches(leaf, ip) ==
    \A i \in 0 .. Width - 1 :
        Bit(ip, i) = Bit(leaf.ip, i) \/ Bit(IgnoredBits(leaf.mask), i) = 1

RECURSIVE rt_find_route(_, _)
rt_find_route(t, ip) ==
    CASE t.kind = "null" -> NULL_PORT
      [] t.kind = "leaf" -> IF LeafMatches(t, ip) THEN t.port ELSE NULL_PORT
      [] OTHER -> rt_find_route(IF Bit(ip, t.cmpBit) = 1 THEN t.right ELSE t.left, ip)

-----------------------------------------------------------------------------
Init ==
    /\ table = <<>>
    /\ trie = (<<>> :> pt_new_node)
    /\ reduced = Inode(0, Null, Null)

(* The next route of the file goes into both trees. *)
Insert(ip, mask) ==
    LET port == Len(table) + 1 IN
    /\ Len(table) < MaxRoutes
    /\ table' = Append(table, [ip |-> ip, mask |-> mask, port |-> port])
    /\ trie' = pt_insert_node(trie, ip, mask, port)
    /\ reduced' = rt_Insert(reduced, ip, mask, port)

Known(ip, mask) == \E i \in DOMAIN table : table[i].ip = ip /\ table[i].mask = mask

Sorted(ip) == \A i \in DOMAIN table : table[i].ip <= ip

(* The file holds each network once, in the order of the addresses. *)
Next ==
    \E mask \in Lengths, ip \in Ip :
        /\ ip = Masked(ip, mask) /\ ~ Known(ip, mask) /\ Sorted(ip)
        /\ Insert(ip, mask)

Spec == Init /\ [][Next]_vars

-----------------------------------------------------------------------------
(* The longest of the routes that have been read and match ip. *)
Routes(ip) == {i \in DOMAIN table : Masked(ip, table[i].mask) = table[i].ip}

Longest(ip) ==
    CHOOSE i \in Routes(ip) : \A j \in Routes(ip) : table[j].mask <= table[i].mask

(* The addresses that are looked up: those of the file. *)
Asked == {table[i].ip : i \in DOMAIN table}

(* The plain trie finds the longest route for every address of the file, though it
   passes over a route behind which the address has a bit set (trie.c:102, 110). *)
LongestInTrie == \A ip \in Asked : pt_find_route(trie, ip) = Longest(ip)

(* So does the reduced one, though it compares too many bits of a leaf, drops routes
   (reducedTrie.c:166), and looks at one address of a subtree only before it puts
   a node above it (102, 137): it rests on the order of the file. *)
LongestInReduced == \A ip \in Asked : rt_find_route(reduced, ip) = Longest(ip)
=============================================================================
