------------------------------- MODULE GitUpdate -------------------------------
(***************************************************************************)
(* GitRepository.update() in projects/repository.py: repeated updates of a *)
(* clone, with the questions they ask, while the user edits files, stashes *)
(* edits and works on branches of any upstream, and while any git command  *)
(* may fail or the run be killed before it.                                *)
(*                                                                         *)
(* Abstractions.  git is external and one command is one step.  There are  *)
(* two URLs, the current one and another.  Commits are not modelled:       *)
(* whether the upstream is ahead is chosen at each check, and a rebase     *)
(* that stops is aborted.  What is not committed is a flag, and an entry   *)
(* of the stash is who made it.  The clone exists, HEAD is on a branch,    *)
(* and no explicit revision is asked for.                                  *)
(***************************************************************************)
EXTENDS Naturals, Sequences

CONSTANTS
  NoUpstream,   (* of a branch that tracks nothing                              *)
  MaxNames,     (* a bound on the remotes and the branches that are made        *)
  MaxStash      (* a bound on the entries of the stash                          *)

ASSUME GitAssumption ==
  /\ MaxNames \in Nat \ {0}
  /\ MaxStash \in Nat \ {0}

(* self.url and another one: a member of self.old_urls if there are any,   *)
(* else the URL of somebody's fork.                                        *)
Url == {"current", "other"}

(* "old-" and "new-" repeated n times before "origin"; a user's remote.    *)
Origin == <<"origin", 0>>
Mine == <<"mine", 0>>
Remote == {Origin, Mine} \cup ({"old", "new"} \X (1 .. MaxNames))

(* The default branch, a user's branch, and <default>-cheribuild-<n>.      *)
Default == <<"main", 0>>
Dev == <<"dev", 0>>
Branch == {Default, Dev} \cup ({"cheribuild"} \X (1 .. MaxNames))

ASSUME UpstreamAssumption == NoUpstream \notin Remote \X Branch

(* The GitRepository object.                                               *)
RepoType ==
  [hasOldUrls: BOOLEAN, hasDefault: BOOLEAN, switches: {"never", "force", "old"}]

VARIABLES
  repo,
  (* the clone *)
  remotes,      (* the URL of every remote                                      *)
  branches,     (* the upstream of every branch                                 *)
  head,         (* the current branch                                           *)
  dirty,        (* whether there are local changes                              *)
  stash,        (* the stash, the last entry first                              *)
  (* one update *)
  pc,
  remote,       (* the remote that is switched to                               *)
  accepted,     (* what the user has agreed to, until the branch is settled     *)
  autostash,    (* has_autostash: git knows --autostash                         *)
  hasChanges    (* has_changes                                                  *)

clone == <<remotes, branches, head, dirty, stash>>
locals == <<remote, accepted, autostash, hasChanges>>
vars == <<repo, clone, pc, locals>>

PCs == {"idle", "old_urls", "rename", "add_origin", "checkout_url", "branch",
        "find_remote", "checkout_branch", "check", "changes", "stash", "pull",
        "submodules", "pop"}

Goto(label) == pc' = label

(* update() returns or raises, and its variables are gone.                 *)
Return ==
  /\ Goto("idle")
  /\ remote' = Origin
  /\ accepted' = {}
  /\ autostash' = FALSE
  /\ hasChanges' = FALSE

Upstreams == {NoUpstream} \cup ((DOMAIN remotes) \X {Default, Dev})
UrlOf(b) == IF branches[b] = NoUpstream THEN "none" ELSE remotes[branches[b][1]]
(* A mutant of First: the counter starts one too low.                      *)
FirstFromZero(kind, taken) ==
  { n \in 0 .. MaxNames : <<kind, n>> \notin taken
                            /\ \A i \in 0 .. n - 1 : <<kind, i>> \in taken }

(* The loops that look for a name that is free.                            *)
First(kind, taken) ==
  { n \in 1 .. MaxNames : <<kind, n>> \notin taken
                            /\ \A i \in 1 .. n - 1 : <<kind, i>> \in taken }

-----------------------------------------------------------------------------
(* The user works on the tree between updates.                             *)
EditFiles ==
  /\ pc = "idle"
  /\ dirty' = TRUE
  /\ UNCHANGED <<repo, remotes, branches, head, stash, pc, locals>>

StashOwn ==
  /\ pc = "idle"
  /\ dirty
  /\ Len(stash) < MaxStash
  /\ dirty' = FALSE
  /\ stash' = <<"user">> \o stash
  /\ UNCHANGED <<repo, remotes, branches, head, pc, locals>>

Checkout ==
  /\ pc = "idle"
  /\ head' \in DOMAIN branches
  /\ UNCHANGED <<repo, remotes, branches, dirty, stash, pc, locals>>

Start ==
  /\ pc = "idle"
  /\ Goto("old_urls")
  /\ UNCHANGED <<repo, clone, locals>>

-----------------------------------------------------------------------------
(* _handle_old_urls()                                                      *)

TracksOldUrl == repo.hasOldUrls /\ UrlOf(head) = "other"

HandleOldUrls ==
  /\ pc = "old_urls"
  /\ \/ /\ TracksOldUrl
        /\ remote' = branches[head][1]
        /\ accepted' = accepted \cup {"url"}
        /\ Goto(IF Origin \in DOMAIN remotes THEN "rename" ELSE "add_origin")
     \/ Goto("branch") /\ UNCHANGED <<remote, accepted>>      \* or "no"
  /\ UNCHANGED <<repo, clone, autostash, hasChanges>>

(* "git remote rename" until a name is free; it renames the upstreams too. *)
RenameOrigin ==
  /\ pc = "rename"
  /\ \E n \in First("old", DOMAIN remotes) :
       LET renamed(r) == IF r = Origin THEN <<"old", n>> ELSE r IN
       /\ remotes' = [ r \in (DOMAIN remotes \ {Origin}) \cup {<<"old", n>>} |->
                         IF r = <<"old", n>> THEN remotes[Origin] ELSE remotes[r] ]
       /\ branches' = [ b \in DOMAIN branches |->
                          IF branches[b] = NoUpstream THEN NoUpstream
                          ELSE <<renamed(branches[b][1]), branches[b][2]>> ]
  /\ Goto("add_origin")
  /\ UNCHANGED <<repo, head, dirty, stash, locals>>

AddOrigin ==
  /\ pc = "add_origin"
  /\ remotes' = [ r \in DOMAIN remotes \cup {Origin} |->
                    IF r = Origin THEN "current" ELSE remotes[r] ]
  /\ remote' = Origin
  /\ Goto(IF repo.hasDefault THEN "checkout_url" ELSE "branch")
  /\ UNCHANGED <<repo, branches, head, dirty, stash, accepted, autostash, hasChanges>>

-----------------------------------------------------------------------------
(* _handle_branch_switch()                                                 *)

WrongBranch ==
  \/ repo.switches = "force" /\ head # Default
  \/ repo.switches = "old" /\ head = Dev

(* Whoever does not want to switch is asked whether to go on.              *)
HandleBranchSwitch ==
  /\ pc = "branch"
  /\ \/ /\ WrongBranch
        /\ accepted' = accepted \cup {"branch"}
        /\ Goto("find_remote")
        /\ UNCHANGED <<remote, autostash, hasChanges>>
     \/ Goto("check") /\ UNCHANGED locals
     \/ WrongBranch /\ Return
  /\ UNCHANGED <<repo, clone>>

(* A remote for the URL, or a new one with a free name.                    *)
FindRemote ==
  /\ pc = "find_remote"
  /\ \/ /\ \E r \in DOMAIN remotes : remotes[r] = "current" /\ remote' = r
        /\ UNCHANGED remotes
     \/ /\ \A r \in DOMAIN remotes : remotes[r] # "current"
        /\ \/ Origin \notin DOMAIN remotes /\ remote' = Origin
           \/ /\ Origin \in DOMAIN remotes
              /\ \E n \in First("new", DOMAIN remotes) : remote' = <<"new", n>>
        /\ remotes' = [ r \in DOMAIN remotes \cup {remote'} |->
                          IF r = remote' THEN "current" ELSE remotes[r] ]
  /\ Goto("checkout_branch")
  /\ UNCHANGED <<repo, branches, head, dirty, stash, accepted, autostash, hasChanges>>

(* Mutants of the next two: the upstream of the branch does not matter,    *)
(* and the branch is made to track the one that is expected.               *)
AnyUpstream(expected) == TRUE
Retracked(expected) == {Default}

TracksExpected(expected) == branches[Default] = expected
FreshBranch(expected) == {"cheribuild"} \X First("cheribuild", DOMAIN branches)

(* Fetch the remote and check out its default branch: the local branch of  *)
(* that name if it tracks it, or else a new one.                           *)
CheckoutDefault ==
  LET expected == <<remote, Default>>
      new == IF Default \in DOMAIN branches THEN FreshBranch(expected) ELSE {Default}
  IN
  /\ \/ pc = "checkout_url" /\ Goto("branch")
     \/ pc = "checkout_branch" /\ Goto("check")
  /\ \/ /\ Default \in DOMAIN branches /\ TracksExpected(expected)
        /\ head' = Default
        /\ UNCHANGED branches
     \/ /\ ~(Default \in DOMAIN branches /\ TracksExpected(expected))
        /\ head' \in new
        /\ branches' = [ b \in DOMAIN branches \cup {head'} |->
                           IF b = head' THEN expected ELSE branches[b] ]
  /\ UNCHANGED <<repo, remotes, dirty, stash, locals>>

-----------------------------------------------------------------------------
(* The rest of update()                                                    *)

(* Fetch, and compare; no upstream counts as up to date.                   *)
CheckIfUpToDate ==
  /\ pc = "check"
  /\ \/ Return
     \/ /\ branches[head] # NoUpstream
        /\ Goto("changes")
        /\ autostash' \in BOOLEAN
        /\ accepted' = {}
        /\ remote' = Origin
        /\ UNCHANGED hasChanges
  /\ UNCHANGED <<repo, clone>>

(* "git diff" misses what is staged, and may show a submodule.             *)
HandleLocalChanges ==
  /\ pc = "changes"
  /\ \/ Goto("pull") /\ UNCHANGED locals
     \/ Return                                              \* "no"
     \/ /\ hasChanges' = autostash
        /\ Goto(IF autostash THEN "pull" ELSE "stash")
        /\ UNCHANGED <<remote, accepted, autostash>>
  /\ UNCHANGED <<repo, clone>>

(* A mutant of Stashed: "No local changes to save" is not looked for.      *)
AlwaysStashed == TRUE
Stashed == dirty

StashChanges ==
  /\ pc = "stash"
  /\ Len(stash) < MaxStash
  /\ stash' = IF dirty THEN <<"cheribuild">> \o stash ELSE stash
  /\ dirty' = FALSE
  /\ hasChanges' = Stashed
  /\ Goto("pull")
  /\ UNCHANGED <<repo, remotes, branches, head, remote, accepted, autostash>>

(* Without --autostash git refuses to rebase a tree with changes; with it, *)
(* changes that conflict stay in the stash.                                *)
Pull ==
  /\ pc = "pull"
  /\ \/ ~dirty /\ UNCHANGED <<dirty, stash>>
     \/ dirty /\ autostash /\ UNCHANGED <<dirty, stash>>
     \/ /\ dirty /\ autostash /\ Len(stash) < MaxStash
        /\ dirty' = FALSE
        /\ stash' = <<"cheribuild">> \o stash
  /\ Goto("submodules")
  /\ UNCHANGED <<repo, remotes, branches, head, locals>>

UpdateSubmodules ==
  /\ pc = "submodules"
  /\ IF hasChanges /\ ~autostash
     THEN Goto("pop") /\ UNCHANGED locals
     ELSE Return
  /\ UNCHANGED <<repo, clone>>

(* An entry whose changes conflict is kept.                                *)
Pop ==
  /\ pc = "pop"
  /\ stash # <<>>
  /\ dirty' = TRUE
  /\ stash' \in {stash, Tail(stash)}
  /\ Return
  /\ UNCHANGED <<repo, remotes, branches, head>>

Fail ==
  /\ pc # "idle"
  /\ Return
  /\ UNCHANGED <<repo, clone>>

-----------------------------------------------------------------------------
(* Any clone, after the user has changed anything in it: dev may have been *)
(* made from the default branch of a remote, or from none.                 *)
Init ==
  /\ repo \in RepoType
  /\ repo.switches = "force" => repo.hasDefault
  /\ remotes \in [{Origin} -> Url] \cup [{Mine} -> Url] \cup [{Origin, Mine} -> Url]
  /\ \E Local \in {{Default}, {Dev}, {Default, Dev}} :
       /\ branches \in [Local -> Upstreams]
       /\ Dev \in Local => branches[Dev] \in {NoUpstream} \cup ((DOMAIN remotes) \X {Default})
  /\ head \in DOMAIN branches
  /\ dirty = FALSE
  /\ stash = <<>>
  /\ pc = "idle"
  /\ remote = Origin
  /\ accepted = {}
  /\ autostash = FALSE
  /\ hasChanges = FALSE

Next ==
  \/ EditFiles \/ StashOwn \/ Checkout
  \/ Start
  \/ HandleOldUrls \/ RenameOrigin \/ AddOrigin
  \/ HandleBranchSwitch \/ FindRemote
  \/ CheckoutDefault
  \/ CheckIfUpToDate \/ HandleLocalChanges \/ StashChanges
  \/ Pull \/ UpdateSubmodules \/ Pop
  \/ Fail

Spec == Init /\ [][Next]_vars

-----------------------------------------------------------------------------
(* The types of the variables; every upstream names a remote that exists.  *)
TypeOK ==
  /\ repo \in RepoType
  /\ DOMAIN remotes \subseteq Remote /\ \A r \in DOMAIN remotes : remotes[r] \in Url
  /\ DOMAIN branches \subseteq Branch
  /\ \A b \in DOMAIN branches : branches[b] \in Upstreams
  /\ head \in DOMAIN branches
  /\ dirty \in BOOLEAN
  /\ stash \in Seq({"user", "cheribuild"}) /\ Len(stash) <= MaxStash
  /\ pc \in PCs
  /\ remote \in Remote
  /\ accepted \subseteq {"url", "branch"}
  /\ {autostash, hasChanges} \subseteq BOOLEAN

(* The branch that an update ends up on, from here to its end.             *)
AtUpdate == pc = "check"

(* What "git stash pop" takes is what this update has put there, never     *)
(* changes that the user had stashed.                                      *)
OwnStashIsPopped == pc = "pop" => stash # <<>> /\ Head(stash) = "cheribuild"

(* Once the user has agreed to switch, what is updated, and then built, is *)
(* a branch that tracks the default branch of the current URL, whatever    *)
(* the local branch of that name tracks, and however the remotes are named *)
(* after earlier updates that failed half-way.                             *)
SwitchIsEffective ==
  AtUpdate /\ "branch" \in accepted =>
    /\ branches[head] # NoUpstream /\ branches[head][2] = Default
    /\ UrlOf(head) = "current"

(* No update makes a branch that exists track another URL: the user's work *)
(* is never rebased on another repository later.                           *)
BranchesKeepTheirUrl ==
  [][\A b \in DOMAIN branches : b \in DOMAIN branches' /\ UrlOf(b)' = UrlOf(b)]_vars

(* "still points to old repository ... Update to correct URL?": who agrees *)
(* gets the update from the correct URL.                                   *)
CorrectUrlIsUsed ==
  AtUpdate /\ "url" \in accepted => UrlOf(head) = "current"
=============================================================================
