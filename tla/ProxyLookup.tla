---------------------------- MODULE ProxyLookup -----------------------------
(***************************************************************************)
(* How the front-proxy resolves a path with its index (ProxyIndex), what   *)
(* the path stands for on the shards, and that the one comes to agree with *)
(* the other.                                                              *)
(***************************************************************************)
EXTENDS ProxyIndex, SequencesExt

----------------------------------------------------------------------------
(* The lookup of a path: the name of an LC followed by names of workspaces. *)

NotFound == [found |-> FALSE]

\* A result of Lookup: the shard, the LC (Empty for a mount) and whether the
\* answer is a 503.
Found(s, c, code) == [found |-> TRUE, shard |-> s, cluster |-> c, code |-> code]

\* The first segment names an LC, which carries the error code of its workspace.
ByName(c) ==
    IF clusterShards[c] = None THEN NotFound
    ELSE Found(clusterShards[c], c,
               c \in Children /\ reverse[clusterShards[c]][c] \in errors[clusterShards[c]])

\* Another segment names a workspace in the LC reached so far.
Child(r, n) ==
    IF ~r.found \/ r.cluster = Empty THEN NotFound
    ELSE
        LET x == <<r.cluster, n>>
            c == forward[r.shard][x]
            code == r.code \/ x \in errors[r.shard]
        IN  IF c = None
            THEN IF x \in mounts[r.shard] THEN Found(r.shard, Empty, code) ELSE NotFound
            ELSE IF c = Empty \/ clusterShards[c] = None THEN NotFound
            ELSE Found(clusterShards[c], c, code)

Lookup(path) ==
    LET walk[i \in 1..Len(path)] ==
            IF i = 1 THEN ByName(path[1]) ELSE Child(walk[i - 1], path[i])
    IN  walk[Len(path)]

\* An error code is answered as it is; otherwise the shard must have a base URL.
LookupURL(path) ==
    LET r == Lookup(path)
    IN  IF ~r.found \/ (~r.code /\ baseURLs[r.shard] = "none") THEN NotFound
        ELSE [r EXCEPT !.shard = IF r.code THEN None ELSE <<@, baseURLs[@]>>]

----------------------------------------------------------------------------
(* What a path stands for: the same walk over the shards themselves.       *)

RealByName(c) ==
    IF c # Empty /\ \E s \in Shards : lcs[s][c].exists
    THEN Found(CHOOSE s \in Shards : lcs[s][c].exists, c, FALSE)
    ELSE NotFound

RealChild(r, n) ==
    IF ~r.found \/ r.cluster = Empty THEN NotFound
    ELSE
        LET w == workspaces[r.shard][<<r.cluster, n>>]
            code == r.code \/ w.phase = "Unavailable"
        IN  IF ~w.exists THEN NotFound
            ELSE IF w.mount THEN Found(r.shard, Empty, code)
            ELSE IF RealByName(w.cluster).found
                 THEN [RealByName(w.cluster) EXCEPT !.code = code]
                 ELSE NotFound

Resolve(path) ==
    LET walk[i \in 1..Len(path)] ==
            IF i = 1 THEN RealByName(path[1]) ELSE RealChild(walk[i - 1], path[i])
        r == walk[Len(path)]
    IN  IF ~r.found THEN NotFound
        ELSE [r EXCEPT !.shard = IF r.code THEN None
                                 ELSE <<@, IF @ \in renewed THEN "new" ELSE "old">>]

Paths == {<<c>> : c \in LCNames} \cup {<<c, n>> : c \in LCNames, n \in Names}
            \cup {<<Root, n, m>> : n, m \in Names}

----------------------------------------------------------------------------
(* Properties.                                                             *)

\* A path that stands for nothing any more is still answered.  It happens only
\* for a shard that was registered anew: what its old informers deliver while
\* they are stopped stays in the index (pkg/proxy/index/index_controller.go:293).
Leaked(real, looked) == ~real.found /\ looked.found /\ looked.shard \in renewed

\* The path of a mount whose name an earlier workspace had, of which the index
\* never handled the delete.  UpsertWorkspace empties the edge of that workspace
\* and does not remove it (pkg/index/index.go:172); Lookup comes to a mount only
\* where there is no edge (pkg/index/index.go:546), and no resync removes it.
Hidden(path) ==
    LET parent == Lookup(Front(path))
        real   == Resolve(path)
    IN  /\ Len(path) > 1 /\ parent.found
        /\ real.found /\ real.cluster = Empty
        /\ forward[parent.shard][<<parent.cluster, Last(path)>>] = Empty

\* Once the workspaces and their LCs rest, the index comes to answer every path
\* from the root for what it stands for: its LC, on the shard that has it, under
\* the shard's present base URL, with 503 if a workspace on the way is
\* Unavailable, and nothing for a path that stands for nothing; but for what is
\* leaked, and for mounts that are hidden.  Events of the informers of several
\* shards may have arrived in any order, late or not at all, names been used
\* again, shards registered anew, the front-proxy restarted
\* (pkg/index/index.go:505, pkg/proxy/index/index_controller.go:211).
PathsConverge ==
    <>[](\A path \in Paths : path[1] = Root =>
            \/ LookupURL(path) = Resolve(path)
            \/ Leaked(Resolve(path), Lookup(path))
            \/ Hidden(path))

\* The same for the LCs addressed by name, but for the error code: an LC is
\* routed to the shard that has it, and one that is gone is not found
\* (pkg/index/index.go:264, 355).
NamesConverge ==
    <>[](\A c \in Children :
            \/ RealByName(c).found /\ ByName(c).found /\ ByName(c).shard = RealByName(c).shard
            \/ ~RealByName(c).found /\ ~ByName(c).found
            \/ Leaked(RealByName(c), ByName(c)))
====
