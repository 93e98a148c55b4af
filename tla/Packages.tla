------------------------------ MODULE Packages ------------------------------
(***************************************************************************)
(* Package resolution (src/cache.rs, lock.rs, pkgid.rs, driver/cmd_pkg.rs, *)
(* driver/sources/packages.rs, dag.rs): a command resolves a project's     *)
(* requirements against its lock file, the cache of cloned repositories    *)
(* that all projects of a user share, and the remote repositories; it      *)
(* rewrites the lock, and a build then lays the packages out as a graph    *)
(* that names are looked up in.                                            *)
(*                                                                         *)
(* A command is one action that performs its file-system effects in the    *)
(* code's order and may be killed before any of them; commands of one user *)
(* do not overlap, and a command of another project is seen as what it     *)
(* leaves in the cache.  A dependency is [name, version], a version <<major,    *)
(* minor>>; names are numbers, in the order in which the lock sorts them.  *)
(* Every name has one URL, so <<name, version>> stands for the directory   *)
(* and a commit is a revision of it.  Hashes are taken as injective.       *)
(***************************************************************************)
EXTENDS Integers, Sequences, FiniteSets, TLC

CONSTANTS Requirements,  \* what the project's project.jn may require
          Dirs,          \* the <<name, version>> that exist upstream
          Manifest,      \* Manifest[dir, rev]: [requires, internal] of a commit's project.jn
          Revs,          \* the commits a version may be tagged at, from 1
          UsePaths,      \* the paths a root program may import
          Unpublished,   \* the sets of versions that may not be tagged at first
          MaxCommands,   \* bound on the commands and retaggings of a behaviour
          MaxKills,      \* bound on the commands that are killed
          Unlimited      \* more effects than any command performs
ASSUME PackagesConstants == MaxCommands \in Nat /\ MaxKills \in Nat /\ Unlimited \in Nat /\ 1 \in Revs

VARIABLE pkg

Elements(s) == {s[i] : i \in DOMAIN s}
DirOf(d) == <<d.name, d.version>>          \* make_path
Absent == [at |-> "absent", head |-> 0]
Empty == [at |-> "empty", head |-> 0]      \* created, not yet a repository
Half(c) == [at |-> "half", head |-> c]     \* HEAD is set, the files are not all there
Whole(c) == [at |-> "whole", head |-> c]

(***************************************************************************)
(* A running command w: the files it sees, how many more effects it lives  *)
(* for, and whether it goes on, has failed (`die`) or was killed.          *)
(***************************************************************************)
Running(w) == w.res = "run"
Fail(w) == IF Running(w) THEN [w EXCEPT !.res = "failed"] ELSE w
Effect(w, after) ==
  CASE ~Running(w) -> w
    [] Running(w) /\ w.left = 0 -> [w EXCEPT !.res = "killed"]
    [] OTHER -> [after EXCEPT !.left = @ - 1]
SetDir(w, d, s) == Effect(w, [w EXCEPT !.cache[d] = s])
SetLock(w, entries) == Effect(w, [w EXCEPT !.lock = entries])

read_commit(w, d) == IF w.cache[d].at \in {"half", "whole"} THEN w ELSE Fail(w)

Cleared(w, d) == SetDir(SetDir(w, d, Absent), d, Empty)

fetch_tag(w, d) ==
  IF w.net # "down" /\ w.tags[d] # 0
  THEN SetDir(SetDir(Cleared(w, d), d, Half(w.tags[d])), d, Whole(w.tags[d]))
  ELSE Fail(SetDir(Cleared(w, d), d, Absent))

(* A clone without a checkout leaves HEAD at the tip of the default branch,
   taken to be the tagged commit. *)
fetch_pinned_commit(w, d, commit) ==
  CASE w.net = "down" -> Fail(SetDir(Cleared(w, d), d, Absent))
    [] w.net = "commit gone" -> Fail(SetDir(SetDir(Cleared(w, d), d, Half(w.tags[d])), d, Absent))
    [] OTHER -> SetDir(SetDir(Cleared(w, d), d, Half(w.tags[d])), d, Whole(commit))

fetch(w, d) == IF w.cache[d] # Absent THEN read_commit(w, d) ELSE fetch_tag(w, d)

(* Mutant: a package that is there is taken at whatever commit it is at. *)
EnsureAnyHead(w, d, commit) ==
  CASE w.cache[d] = Absent -> fetch_pinned_commit(w, d, commit)
    [] w.cache[d] = Empty -> Fail(w)
    [] OTHER -> w

Ensure(w, d, commit) ==
  CASE w.cache[d] = Absent -> fetch_pinned_commit(w, d, commit)
    [] w.cache[d] = Empty -> Fail(w)
    [] w.cache[d] # Absent /\ w.cache[d].head = commit -> w
    [] OTHER -> fetch_pinned_commit(w, d, commit)

(* What the project.jn of a cached package says; without one, nothing. *)
ManifestAt(w, d) ==
  IF w.cache[d].at = "whole" THEN Manifest[d, w.cache[d].head] ELSE [requires |-> <<>>, internal |-> FALSE]

Entry(d, commit, deps) == [name |-> d.name, version |-> d.version, commit |-> commit, deps |-> deps]

find_entry(entries, name) ==
  LET at == {i \in DOMAIN entries : entries[i].name = name}
  IN IF at = {} THEN {} ELSE {entries[CHOOSE i \in at : \A j \in at : i <= j]}

(* resolve and resolve_dep: [w, entries] for a list of dependencies. *)
RECURSIVE Resolve(_, _, _, _)
Resolve(w, deps, lock, resolving) ==
  IF deps = <<>> \/ ~Running(w) THEN [w |-> w, entries |-> <<>>]
  ELSE LET d == Head(deps)
           pins == {e \in find_entry(lock, d.name) : e.version = d.version}
           pin == CHOOSE e \in pins : TRUE
           w1 == fetch(w, DirOf(d))
           sub == Resolve(w1, ManifestAt(w1, DirOf(d)).requires, lock, resolving \cup {d.name})
           one == CASE d.name \in resolving -> [w |-> Fail(w), entry |-> <<>>]
                    [] d.name \notin resolving /\ pins # {} ->
                         [w |-> Ensure(w, DirOf(d), pin.commit), entry |-> pin]
                    [] OTHER ->
                         [w |-> sub.w, entry |-> Entry(d, w1.cache[DirOf(d)].head, sub.entries)]
           rest == Resolve(one.w, Tail(deps), lock, resolving)
       IN [w |-> rest.w, entries |-> <<one.entry>> \o rest.entries]

(* The text of the lock: two levels, each sorted by name. *)
ByName(a, b) == a.name < b.name
LockText(entries) ==
  LET two == [i \in DOMAIN entries |->
                [entries[i] EXCEPT !.deps = SortSeq([j \in DOMAIN @ |-> [@[j] EXCEPT !.deps = <<>>]], ByName)]]
  IN SortSeq(two, ByName)

WriteLock(w, entries) == SetLock(SetLock(w, <<>>), LockText(entries))

(* cmd_fetch and the first half of load_packages_with_ids *)
ResolveAndLock(w, requires, lock) ==
  LET Locked(r) == [w |-> WriteLock(r.w, r.entries), entries |-> r.entries]
  IN Locked(Resolve(w, requires, lock, {}))

RECURSIVE collect_paths(_)
collect_paths(entries) ==
  IF entries = <<>> THEN <<>>
  ELSE <<Head(entries)>> \o collect_paths(Head(entries).deps) \o collect_paths(Tail(entries))

(* build_package_map: one directory per name, the last one inserted. *)
PackageMap(entries) ==
  LET all == collect_paths(entries)
      last(n) == CHOOSE i \in DOMAIN all : all[i].name = n /\ \A j \in DOMAIN all : all[j].name = n => j <= i
  IN [n \in {all[i].name : i \in DOMAIN all} |-> DirOf(all[last(n)])]

(***************************************************************************)
(* The graph.  An identity carries what its hash is computed from.         *)
(***************************************************************************)
RootId == [name |-> 0, scope |-> <<>>, version |-> <<0, 0>>, src |-> Absent, deps |-> {}, internal |-> FALSE]
PackageNode(id, dir, deps) == [id |-> id, dir |-> dir, deps |-> deps]
Bad == [ok |-> FALSE, ids |-> <<>>, nodes |-> {}]

RECURSIVE ResolveNodes(_, _, _, _, _, _)
resolve_node(w, d, dir, scope, paths, g) ==
  LET below == ResolveNodes(w, ManifestAt(w, dir).requires, Append(scope, d.name), paths,
                            g.visiting \cup {DirOf(d)}, g.nodes)
      id == [name |-> d.name, scope |-> scope, version |-> d.version, src |-> w.cache[dir],
             deps |-> Elements(below.ids), internal |-> ManifestAt(w, dir).internal]
  IN IF \/ DirOf(d) \in g.visiting
        \/ w.cache[dir] = Absent
        \/ ~below.ok
        \/ \E n \in below.nodes : n.id = id /\ n.dir # dir
     THEN Bad
     ELSE [ok |-> TRUE, ids |-> <<id>>, nodes |-> below.nodes \cup {PackageNode(id, dir, below.ids)}]

ResolveNodes(w, deps, scope, paths, visiting, nodes) ==
  IF deps = <<>> THEN [ok |-> TRUE, ids |-> <<>>, nodes |-> nodes]
  ELSE LET d == Head(deps)
           one == IF d.name \in DOMAIN paths
                  THEN resolve_node(w, d, paths[d.name], scope, paths, [visiting |-> visiting, nodes |-> nodes])
                  ELSE Bad
           rest == ResolveNodes(w, Tail(deps), scope, paths, visiting, one.nodes)
       IN IF one.ok /\ rest.ok THEN [rest EXCEPT !.ids = one.ids \o rest.ids] ELSE Bad

reject_multi_version(nodes) == \E a, b \in nodes : a.id.name = b.id.name /\ a.id.version[1] # b.id.version[1]

flatten_workspace(w, requires, paths) ==
  LET WithRoot(g) == [g EXCEPT !.nodes = @ \cup {PackageNode(RootId, <<>>, g.ids)}]
      Checked(g) == IF ~g.ok \/ reject_multi_version(g.nodes) THEN Bad ELSE g
  IN Checked(WithRoot(ResolveNodes(w, requires, <<0>>, paths, {<<0, <<0, 0>>>>}, {})))

(* resolve_scoped_pkg_ids: the later of two dependencies of one name wins. *)
resolve_use(nodes, consumer, name) ==
  {n.deps[i] : n \in {m \in nodes : m.id = consumer},
               i \in {j \in 1..Cardinality(Dirs) : \E m \in nodes : m.id = consumer /\ j \in DOMAIN m.deps
                        /\ m.deps[j].name = name
                        /\ \A k \in DOMAIN m.deps : m.deps[k].name = name => k <= j}}

is_prefix_of(s, t) == Len(s) <= Len(t) /\ SubSeq(t, 1, Len(s)) = s

(* resolve_path_use from the root: the packages reached, or none. *)
RECURSIVE Follow(_, _, _)
Follow(nodes, ids, path) ==
  IF path = <<>> THEN ids
  ELSE Follow(nodes, UNION {resolve_use(nodes, id, Head(path)) : id \in ids}, Tail(path))
Visible(id) == id.internal => is_prefix_of(id.scope, <<0>>)
resolve_path_use(nodes, path) == {id \in Follow(nodes, {RootId}, path) : Visible(id)}

(***************************************************************************)
(* Commands.                                                               *)
(***************************************************************************)
Idle == [cmd |-> "none", res |-> "failed", before |-> <<>>, nodes |-> {},
         used |-> {}]

Start(net, left) ==
  [cache |-> pkg.cache, lock |-> pkg.lock, tags |-> pkg.tags, net |-> net, left |-> left, res |-> "run"]

Finish(cmd, w, extra) ==
  pkg' = [pkg EXCEPT !.cache = w.cache, !.lock = w.lock, !.count = @ + 1,
                     !.kills = IF w.res = "killed" THEN @ + 1 ELSE @,
                     !.done = [cmd |-> cmd, res |-> w.res, before |-> pkg.lock] @@ extra]
NoGraph == [nodes |-> {}, used |-> {}]

cmd_fetch(net, left) ==
  LET r == ResolveAndLock(Start(net, left), pkg.requires, pkg.lock)
  IN Finish("fetch", r.w, NoGraph)

cmd_update(net, left) ==
  LET r == ResolveAndLock(SetLock(Start(net, left), <<>>), pkg.requires, <<>>)
  IN Finish("update", r.w, NoGraph)

(* load_packages_with_ids, then flatten_workspace, then the imports. *)
Build(net, left) ==
  LET Import(w, g, used) == IF ~g.ok \/ used = {} THEN Finish("build", Fail(w), NoGraph)
                            ELSE Finish("build", w, [nodes |-> g.nodes, used |-> used])
      Resolved(w, g) == Import(w, g, resolve_path_use(g.nodes, pkg.path))
      Layout(w, paths) == IF \E n \in DOMAIN paths : w.cache[paths[n]] = Absent
                          THEN Finish("build", Fail(w), NoGraph)
                          ELSE Resolved(w, flatten_workspace(w, pkg.requires, paths))
      Load(r) == IF ~Running(r.w) THEN Finish("build", r.w, NoGraph) ELSE Layout(r.w, PackageMap(r.entries))
  IN Load(ResolveAndLock(Start(net, left), pkg.requires, pkg.lock))

(* cmd_publish with --push: the remote takes a tag it does not have yet. *)
cmd_publish(d, rev) ==
  /\ pkg.tags[d] = 0
  /\ pkg' = [pkg EXCEPT !.tags[d] = rev, !.count = @ + 1, !.done = Idle]

(* The owner moves the tag on the remote by hand. *)
Retag(d, rev) ==
  /\ pkg.tags[d] \notin {0, rev}
  /\ pkg' = [pkg EXCEPT !.tags[d] = rev, !.count = @ + 1, !.done = Idle]

(* The user edits project.jn, or clears the cache; another project that
   shares the cache fetches a version at the commit it is pinned to. *)
EditRequires(req) ==
  /\ pkg.requires # req
  /\ pkg' = [pkg EXCEPT !.requires = req, !.count = @ + 1, !.done = Idle]
ClearCache ==
  /\ \E d \in Dirs : pkg.cache[d] # Absent
  /\ pkg' = [pkg EXCEPT !.cache = [d \in Dirs |-> Absent], !.count = @ + 1, !.done = Idle]

OtherProject(d, rev) ==
  /\ pkg.tags[d] # 0 /\ pkg.cache[d] # Whole(rev)
  /\ pkg' = [pkg EXCEPT !.cache[d] = Whole(rev), !.count = @ + 1, !.done = Idle]

PackagesInit ==
  \E req \in Requirements, path \in UsePaths, late \in Unpublished :
    pkg = [requires |-> req, path |-> path, lock |-> <<>>, cache |-> [d \in Dirs |-> Absent],
           tags |-> [d \in Dirs |-> IF d \in late THEN 0 ELSE 1], count |-> 0, kills |-> 0, done |-> Idle]

(* The remote answers, or does not, or has lost the commit; or the command
   is killed before one of its effects. *)
Conditions == [net : {"up", "down", "commit gone"}, left : {Unlimited}] \cup [net : {"up"}, left : IF pkg.kills < MaxKills THEN 0..Unlimited ELSE {Unlimited}]
PackagesNext ==
  /\ pkg.count < MaxCommands
  /\ \/ \E c \in Conditions :
          cmd_fetch(c.net, c.left) \/ cmd_update(c.net, c.left) \/ Build(c.net, c.left)
     \/ \E d \in Dirs, rev \in Revs : cmd_publish(d, rev) \/ Retag(d, rev) \/ OtherProject(d, rev)
     \/ \E req \in Requirements : EditRequires(req)
     \/ ClearCache

PackagesSpec == PackagesInit /\ [][PackagesNext]_pkg

(***************************************************************************)
(* Properties.                                                             *)
(***************************************************************************)
Done == pkg.done
Finished == Done.res = "run"
Wanted == Elements(pkg.requires)
Pinned(lock, d) == {e \in Elements(lock) : DirOf(e) = DirOf(d)}

(* What a finished command that honours the lock was given, it kept: a
   requirement that was pinned is still pinned to the same commit, whatever
   the remote's tag and the other projects have done since. *)
PinsStable ==
  Done.cmd # "update" => \A d \in Wanted : Pinned(Done.before, d) # {} => Pinned(pkg.lock, d) = Pinned(Done.before, d)

(* The directory a requirement is read from is at the commit its lock
   entry names, and is complete unless some command was killed. *)
SourcesArePinned ==
  \A d \in Wanted : \E e \in Pinned(pkg.lock, d) :
    /\ pkg.cache[DirOf(d)].head = e.commit
    /\ pkg.kills > 0 \/ pkg.cache[DirOf(d)].at = "whole"

(* A program imports a package along requirements that the project.jn files
   it is built from declare, in one major version each, and an internal one
   only if it requires it itself. *)
RECURSIVE Declared(_, _, _)
Declared(deps, path, internal) ==
  IF path = <<>> THEN internal => Len(pkg.path) = 1
  ELSE \E i \in DOMAIN deps : \E n \in Done.nodes :
         /\ deps[i].name = Head(path) /\ n.id.name = Head(path) /\ n.id.version = deps[i].version
         /\ LET m == ManifestAt(pkg, n.dir) IN Declared(m.requires, Tail(path), m.internal)
ImportsDeclared ==
  Done.cmd = "build" =>
    /\ Declared(pkg.requires, pkg.path, FALSE)
    /\ Cardinality(Done.used) = 1
    /\ \A a, b \in Done.nodes : a.id.name = b.id.name => a.id.version[1] = b.id.version[1]

PackagesPinned == Finished => PinsStable /\ SourcesArePinned /\ ImportsDeclared
============================================================================
