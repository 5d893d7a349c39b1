----------------------------- MODULE Neighbours -----------------------------
(***************************************************************************)
(* The kernel's neighbour table as `ip neigh show` prints it, and the      *)
(* lookups IpNeighResolver makes in it.  A line has an address and, once   *)
(* the neighbour has answered, its link-layer address.                     *)
(***************************************************************************)
EXTENDS Sequences

CONSTANTS Ip, Mac

\* No lladdr (FAILED, INCOMPLETE), or one that is no MAC address.
Unusable == {"none", "junk"}

Line == [ip : Ip, lladdr : Mac \cup Unusable]

\* parse_neigh_line: other lines yield nothing.
Usable(line) == line.lladdr \notin Unusable

\* parse_neigh_table: every usable line, in order.
Entries(lines) == SelectSeq(lines, Usable)

\* resolve: the first usable line with the address decides.
Resolve(lines, ip) == SelectSeq(Entries(lines), LAMBDA line : line.ip = ip)

\* resolve_many, gathered into a map by its caller: the last line decides.
ResolveMany(lines, ips) ==
    LET found == SelectSeq(Entries(lines), LAMBDA line : line.ip \in ips)
    IN  [ip \in {found[n].ip : n \in DOMAIN found} |->
            LET of == SelectSeq(found, LAMBDA line : line.ip = ip)
            IN  of[Len(of)].lladdr]
=============================================================================
