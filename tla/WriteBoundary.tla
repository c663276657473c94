---------------------------- MODULE WriteBoundary ----------------------------
(***************************************************************************)
(* Where a task may write: the two judges of a path and the file system    *)
(* they look at.  The safe-auto boundary of the policy engine judges what  *)
(* a plan declares; the authorization contract (startup/authorization.py)  *)
(* judges a path somebody is about to write.  Tasks make and remove links, *)
(* days pass, contracts are revoked: between a question and the write the  *)
(* answer may go stale.  A behaviour is one question and its write.        *)
(*                                                                         *)
(* A place is the sequence of names from the root; /proj is the project,   *)
(* /alias may be a link to it.                                             *)
(* The plan's other fields, budgets and policies of a contract decide      *)
(* nothing here.                                                           *)
(***************************************************************************)
EXTENDS Naturals, Sequences, SequencesExt

CONSTANTS
  Name,         \* the names files and directories may have, ".." included
  LinkTo,       \* the links that may be made: where, and where to
  AnyPath,      \* the paths somebody may ask for
  RootList,     \* the roots a contract may list
  LastDay,      \* bound on the days that pass
  MaxLinks      \* bound on the links made and removed

Project == <<"proj">>
Alias == <<"alias">>

ASSUME WriteBoundaryAssumption ==
  /\ {"proj", "alias", "away"} \subseteq Name
  /\ LinkTo \subseteq [place : Seq(Name), to : Seq(Name)]
  /\ AnyPath \subseteq [abs : BOOLEAN, parts : Seq(Name)]
  /\ \A roots \in RootList : roots \subseteq Seq(Name)
  /\ LastDay \in Nat /\ MaxLinks \in Nat

VARIABLES
  links,        \* the links there are: place of the link -> where it leads
  linked,       \* how often a link was made or removed
  day,
  contractDoc,  \* the contract in force: its state, last day (0: none), roots, grants
  asked,        \* the last question: who was asked for which path, and the answer
  stale,        \* history: a link changed, a day passed or the contract did since then
  landed        \* the place written to after a yes, empty before

boundaryVars == <<links, linked, day, contractDoc, asked, stale, landed>>

\* Path.resolve: name by name, a link replaced by where it leads before `..` goes up.
Resolve(place) ==
  LET reached[n \in 0..Len(place)] ==
        IF n = 0 THEN <<>>
        ELSE IF place[n] = ".." THEN IF reached[n - 1] = <<>> THEN <<>> ELSE Front(reached[n - 1])
        ELSE LET to == Append(reached[n - 1], place[n]) IN IF to \in DOMAIN links THEN links[to] ELSE to
  IN  reached[Len(place)]
From(cwd, path) == IF path.abs THEN path.parts ELSE cwd \o path.parts
Within(place, root) == IsPrefix(root, place)

NoQuestion == [judge |-> "nobody", path |-> [abs |-> FALSE, parts |-> <<>>], cwd |-> <<>>,
               root |-> <<>>, says |-> "no"]
NoContract == [state |-> "none", expires |-> 0, roots |-> {}, granted |-> {}, denied |-> {}]

BoundaryInit ==
  /\ links = [place \in {} |-> <<>>] /\ linked = 0 /\ day = 1
  /\ contractDoc = NoContract /\ asked = NoQuestion /\ stale = FALSE /\ landed = <<>>

-----------------------------------------------------------------------------
(* The world, until a path is refused or written to *)

Open == landed = <<>> /\ (asked = NoQuestion \/ asked.says = "yes")

MakeLink(l) ==
  /\ Open /\ linked < MaxLinks /\ l.place \notin DOMAIN links
  /\ l.place = Alias => l.to = Project
  /\ links' = [p \in DOMAIN links \cup {l.place} |-> IF p = l.place THEN l.to ELSE links[p]]
  /\ linked' = linked + 1 /\ stale' = TRUE
  /\ UNCHANGED <<day, contractDoc, asked, landed>>

RemoveLink(p) ==
  /\ Open /\ linked < MaxLinks
  /\ links' = [q \in DOMAIN links \ {p} |-> links[q]]
  /\ linked' = linked + 1 /\ stale' = TRUE
  /\ UNCHANGED <<day, contractDoc, asked, landed>>

DayPasses ==
  /\ Open /\ day < LastDay /\ day' = day + 1 /\ stale' = TRUE
  /\ UNCHANGED <<links, linked, contractDoc, asked, landed>>

-----------------------------------------------------------------------------
(* The safe-auto boundary *)

SafeTop == {".repro", ".execution", "output", "reports"}
ForbiddenName == {"src", "configs", "scripts", "README.md"}

\* The parts that are judged: an absolute path is resolved and taken from the project's
\* root, a relative one as it is written.
JudgedParts(path) ==
  IF path.abs THEN SubSeq(Resolve(path.parts), Len(Project) + 1, Len(Resolve(path.parts)))
  ELSE path.parts

\* Mutant of BoundaryAllows: an absolute path is taken as it is written, too.
BoundaryAllowsAsWritten(path) ==
  LET parts == IF path.abs THEN SubSeq(path.parts, 2, Len(path.parts)) ELSE path.parts
  IN  parts # <<>> /\ parts[1] \in SafeTop /\ \A i \in DOMAIN parts : parts[i] \notin ForbiddenName

BoundaryAllows(path) ==
  /\ path.abs => Within(Resolve(path.parts), Project)
  /\ LET parts == JudgedParts(path)
     IN  parts # <<>> /\ parts[1] \in SafeTop /\ \A i \in DOMAIN parts : parts[i] \notin ForbiddenName

\* A plan declares one write; the task then runs in the project's root.
AskPolicy(path) ==
  /\ asked = NoQuestion
  /\ asked' = [judge |-> "policy", path |-> path, cwd |-> Project, root |-> Project,
               says |-> IF BoundaryAllows(path) THEN "yes" ELSE "no"]
  /\ stale' = FALSE
  /\ UNCHANGED <<links, linked, day, contractDoc, landed>>

-----------------------------------------------------------------------------
(* The authorization contract *)

\* What a contract file may say.  Without an id, a root or a project, or with an unknown
\* policy, or not to be read at all, load_contract exits with 10 and leaves nothing.  A
\* last day that is no date is as good as none.
LoadContract(valid, state, expires, roots) ==
  /\ asked = NoQuestion /\ contractDoc = NoContract
  /\ contractDoc' = IF valid
       THEN [state |-> state, expires |-> IF expires = "dated" THEN 1 ELSE 0,
             roots |-> roots, granted |-> {"task:run", "task:stop"}, denied |-> {"task:stop"}]
       ELSE NoContract
  /\ stale' = TRUE /\ UNCHANGED <<links, linked, day, asked, landed>>

IsActive ==
  /\ contractDoc.state = "active"
  /\ contractDoc.expires = 0 \/ day <= contractDoc.expires

Revoke ==
  /\ Open /\ contractDoc.state = "active"
  /\ \E state \in {"revoked", "expired"} : contractDoc' = [contractDoc EXCEPT !.state = state]
  /\ stale' = TRUE /\ UNCHANGED <<links, linked, day, asked, landed>>

\* Denied before granted, "*" grants everything.
CheckAction(action) ==
  /\ IsActive /\ action \notin contractDoc.denied
  /\ action \in contractDoc.granted \/ "*" \in contractDoc.granted

\* An absolute path must be under a root as the root is spelled, and any path under one
\* of the resolved roots; a relative path starts where the process happens to be.
CheckWritePath(path, cwd, root) ==
  LET place == Resolve(From(cwd, path))
  IN  /\ IsActive
      /\ path.abs => \E r \in contractDoc.roots : Within(place, root \o r)
      /\ \E r \in contractDoc.roots : Within(place, Resolve(root \o r))

AskContract(path, cwd, root) ==
  /\ asked = NoQuestion /\ contractDoc # NoContract
  /\ asked' = [judge |-> "contract", path |-> path, cwd |-> cwd, root |-> root,
               says |-> IF CheckWritePath(path, cwd, root) THEN "yes" ELSE "no"]
  /\ stale' = FALSE
  /\ UNCHANGED <<links, linked, day, contractDoc, landed>>

AskAction(action) ==
  /\ asked = NoQuestion /\ contractDoc # NoContract
  /\ asked' = [NoQuestion EXCEPT !.judge = action, !.says = IF CheckAction(action) THEN "yes" ELSE "no"]
  /\ stale' = FALSE
  /\ UNCHANGED <<links, linked, day, contractDoc, landed>>

\* Nobody looks again when the write is made.
Write ==
  /\ asked.says = "yes" /\ asked.judge \in {"policy", "contract"} /\ landed = <<>>
  /\ landed' = Resolve(From(asked.cwd, asked.path))
  /\ UNCHANGED <<links, linked, day, contractDoc, asked, stale>>

BoundaryNext ==
  \/ \E l \in LinkTo : MakeLink(l)
  \/ \E p \in DOMAIN links : RemoveLink(p)
  \/ DayPasses \/ Revoke \/ Write
  \/ \E path \in AnyPath : AskPolicy(path)
  \/ \E valid \in BOOLEAN, state \in {"active", "revoked"}, expires \in {"garbled", "dated"},
        roots \in RootList :
       LoadContract(valid, state, expires, roots)
  \/ \E path \in AnyPath, cwd \in {Project, <<"away">>}, root \in {Project, Alias} :
       AskContract(path, cwd, root)
  \/ \E action \in {"task:run", "task:stop", "task:delete"} : AskAction(action)

BoundarySpec == BoundaryInit /\ [][BoundaryNext]_boundaryVars

-----------------------------------------------------------------------------
(* Properties *)

ClimbsUp(place) == \E i \in DOMAIN place : place[i] = ".."
MeetsLink(place) == \E n \in 1..Len(place) : SubSeq(place, 1, n) \in DOMAIN links

\* A write that was allowed, and is made before anything changed, lands where the judge
\* meant it to.  The policy's: in a safe directory of the project - except that a relative
\* path may climb out with `..` or through a link, where the boundary does not look.  The
\* contract's: in one of its directories, wherever those lead, while it is in force; and
\* an absolute path is refused that a relative one may write only where a root is spelled
\* through a link or with `..`.
AllowedWritesLand ==
  landed # <<>> /\ ~stale =>
    LET way == From(asked.cwd, asked.path)
    IN  /\ asked.judge = "policy" =>
             \/ Len(landed) > 1 /\ Within(landed, Project) /\ landed[2] \in SafeTop
                  /\ \A i \in 3..Len(landed) : landed[i] \notin ForbiddenName
             \/ ~asked.path.abs /\ (MeetsLink(way) \/ ClimbsUp(way))
        /\ asked.judge = "contract" =>
             /\ contractDoc.state = "active" /\ (contractDoc.expires # 0 => day <= contractDoc.expires)
             /\ \E r \in contractDoc.roots : Within(landed, Resolve(asked.root \o r))
             /\ \/ CheckWritePath([abs |-> TRUE, parts |-> way], asked.cwd, asked.root)
                \/ \E r \in contractDoc.roots : MeetsLink(asked.root \o r) \/ ClimbsUp(r)
=============================================================================
