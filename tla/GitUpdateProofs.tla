---------------------------- MODULE GitUpdateProofs ----------------------------
(***************************************************************************)
(* The safety properties of GitUpdate, for any number of names that        *)
(* remotes and branches can be given and any depth of the stash.  What an  *)
(* update has done so far is known from where it is; a failure at any      *)
(* point leaves a clone about which nothing but the types is assumed.      *)
(***************************************************************************)
EXTENDS GitUpdate, SequenceTheorems, TLAPS

Entry == {"user", "cheribuild"}

(* The stages of update() before the branch is settled, ...                *)
Unsettled == {"idle", "old_urls", "rename", "add_origin", "checkout_url", "branch"}

(* ... and those in which local changes may have been put away.            *)
Pulling == {"pull", "submodules", "pop"}

Types ==
  /\ repo \in RepoType
  /\ DOMAIN remotes \subseteq Remote /\ \A r \in DOMAIN remotes : remotes[r] \in Url
  /\ DOMAIN branches \subseteq Branch
  /\ \A b \in DOMAIN branches : branches[b] \in Upstreams
  /\ head \in DOMAIN branches
  /\ dirty \in BOOLEAN
  /\ stash \in Seq(Entry) /\ Len(stash) <= MaxStash
  /\ pc \in PCs
  /\ remote \in Remote
  /\ accepted \subseteq {"url", "branch"}
  /\ autostash \in BOOLEAN /\ hasChanges \in BOOLEAN

(* A name is given to a remote only if no remote has it.                   *)
NamesAreFree ==
  /\ pc = "rename" => Origin \in DOMAIN remotes
  /\ pc = "add_origin" => Origin \notin DOMAIN remotes

(* What is checked out is the branch of a remote that has been found; only *)
(* then has the user agreed to switch.                                     *)
SwitchIsUnderWay ==
  /\ pc \in Unsettled => "branch" \notin accepted
  /\ pc \in {"checkout_url", "checkout_branch"} =>
       remote \in DOMAIN remotes /\ remotes[remote] = "current"

(* has_changes without has_autostash means that there is an entry of this  *)
(* update on the stash, and that nobody has put another on it.             *)
StashIsOwn ==
  /\ hasChanges => pc \in Pulling
  /\ hasChanges /\ ~autostash => stash # <<>> /\ Head(stash) = "cheribuild"
  /\ pc = "pop" => hasChanges /\ ~autostash

IInv ==
  /\ Types
  /\ NamesAreFree
  /\ SwitchIsUnderWay
  /\ SwitchIsEffective
  /\ StashIsOwn

-----------------------------------------------------------------------------
LEMMA NamesAreRemotes ==
  /\ Origin \in Remote /\ Mine \in Remote /\ Default \in Branch /\ Dev \in Branch
  /\ Default # Dev
  /\ \A n \in 1 .. MaxNames : /\ <<"old", n>> \in Remote /\ <<"new", n>> \in Remote
                              /\ <<"cheribuild", n>> \in Branch
                              /\ <<"old", n>> # Origin
  /\ \A r \in Remote, b \in {Default, Dev} : <<r, b>> # NoUpstream
<1>1. /\ Origin \in Remote /\ Mine \in Remote /\ Default \in Branch /\ Dev \in Branch
      /\ Default # Dev
  BY DEF Remote, Branch, Origin, Mine, Default, Dev
<1>2. \A n \in 1 .. MaxNames : /\ <<"old", n>> \in Remote /\ <<"new", n>> \in Remote
                               /\ <<"cheribuild", n>> \in Branch
                               /\ <<"old", n>> # Origin
  BY DEF Remote, Branch, Origin
<1> QED
  BY <1>1, <1>2, UpstreamAssumption

(* A name that the loops find is free.                                     *)
LEMMA FirstIsFree ==
  ASSUME NEW kind, NEW taken, NEW n \in First(kind, taken)
  PROVE  n \in 1 .. MaxNames /\ <<kind, n>> \notin taken
BY DEF First

(* The upstream of a branch is a remote that exists, if it has one.        *)
LEMMA UpstreamExists ==
  ASSUME Types, NEW b \in DOMAIN branches, branches[b] # NoUpstream
  PROVE  /\ branches[b] = <<branches[b][1], branches[b][2]>>
         /\ branches[b][1] \in DOMAIN remotes /\ branches[b][1] \in Remote
         /\ branches[b][2] \in {Default, Dev}
         /\ UrlOf(b) = remotes[branches[b][1]]
BY DEF Types, Upstreams, UrlOf

LEMMA InitHolds ==
  ASSUME Init
  PROVE  IInv
<1>1. /\ repo \in RepoType /\ head \in DOMAIN branches
      /\ dirty = FALSE /\ stash = <<>> /\ pc = "idle" /\ remote = Origin
      /\ accepted = {} /\ autostash = FALSE /\ hasChanges = FALSE
  BY DEF Init
<1>2. DOMAIN remotes \subseteq Remote /\ \A r \in DOMAIN remotes : remotes[r] \in Url
  BY NamesAreRemotes DEF Init
<1>3. /\ DOMAIN branches \subseteq Branch
      /\ \A b \in DOMAIN branches : branches[b] \in Upstreams
  BY NamesAreRemotes DEF Init
<1>4. stash \in Seq(Entry) /\ Len(stash) = 0
  BY <1>1
<1>5. Len(stash) <= MaxStash
  BY <1>4, GitAssumption
<1>6. /\ dirty \in BOOLEAN /\ autostash \in BOOLEAN /\ hasChanges \in BOOLEAN
      /\ pc \in PCs /\ remote \in Remote /\ accepted \subseteq {"url", "branch"}
  BY <1>1, NamesAreRemotes DEF PCs
<1>7. Types
  BY <1>1, <1>2, <1>3, <1>4, <1>5, <1>6 DEF Types
<1> QED
  BY <1>1, <1>7 DEF IInv, NamesAreFree, SwitchIsUnderWay, SwitchIsEffective, AtUpdate,
     StashIsOwn, Unsettled, Pulling

(* Steps that leave the clone as it is and only move on.                   *)
LEMMA CloneKept ==
  ASSUME Types, UNCHANGED <<repo, clone>>, pc' \in PCs, remote' \in Remote,
         accepted' \subseteq {"url", "branch"},
         autostash' \in BOOLEAN, hasChanges' \in BOOLEAN
  PROVE  Types'
<1>1. /\ repo' = repo /\ remotes' = remotes /\ branches' = branches /\ head' = head
      /\ dirty' = dirty /\ stash' = stash
  BY DEF clone
<1> QED
  BY <1>1 DEF Types, Upstreams

(* What BranchesKeepTheirUrl says of one step.                             *)
KeepsUrls ==
  \A b \in DOMAIN branches : b \in DOMAIN branches' /\ UrlOf(b)' = UrlOf(b)

LEMMA UrlsKept ==
  ASSUME remotes' = remotes, branches' = branches
  PROVE  KeepsUrls
BY DEF KeepsUrls, UrlOf

(* The user changes the tree, the stash and the branch only between        *)
(* updates.                                                                *)
LEMMA UserHolds ==
  ASSUME IInv, EditFiles \/ StashOwn \/ Checkout
  PROVE  IInv' /\ KeepsUrls
<1>1. /\ pc = "idle" /\ pc' = pc /\ repo' = repo
      /\ remotes' = remotes /\ branches' = branches
      /\ remote' = remote /\ accepted' = accepted /\ autostash' = autostash
      /\ hasChanges' = hasChanges
      /\ head' \in DOMAIN branches
  BY DEF EditFiles, StashOwn, Checkout, locals, IInv, Types
<1>2. dirty' \in BOOLEAN
  BY DEF EditFiles, StashOwn, Checkout, IInv, Types
<1>3. stash' \in Seq(Entry) /\ Len(stash') <= MaxStash
  <2>1. stash \in Seq(Entry) /\ Len(stash) <= MaxStash
    BY DEF IInv, Types
  <2>2. CASE EditFiles \/ Checkout
    BY <2>1, <2>2 DEF EditFiles, Checkout
  <2>3. CASE StashOwn
    <3>1. stash' = <<"user">> \o stash /\ Len(stash) < MaxStash
      BY <2>3 DEF StashOwn
    <3>2. stash' \in Seq(Entry) /\ Len(stash') = Len(stash) + 1
      BY <2>1, <3>1 DEF Entry
    <3> QED
      BY <2>1, <3>1, <3>2, GitAssumption
  <2> QED
    BY <2>2, <2>3
<1>4. Types'
  BY <1>1, <1>2, <1>3 DEF IInv, Types, Upstreams
<1>5. hasChanges = FALSE
  BY <1>1 DEF IInv, Types, StashIsOwn, Pulling
<1> QED
  BY <1>1, <1>4, <1>5, UrlsKept DEF IInv, NamesAreFree, SwitchIsUnderWay,
     SwitchIsEffective, AtUpdate, StashIsOwn, Unsettled, Pulling

(* An update that ends, in whatever way, leaves no promise behind.         *)
LEMMA ReturnHolds ==
  ASSUME IInv, Return, UNCHANGED <<repo, remotes, branches, head>>,
         dirty' \in BOOLEAN, stash' \in Seq(Entry), Len(stash') <= MaxStash
  PROVE  IInv' /\ KeepsUrls
<1>1. /\ pc' = "idle" /\ remote' = Origin /\ accepted' = {} /\ autostash' = FALSE
      /\ hasChanges' = FALSE
  BY DEF Return, Goto
<1>2. Types'
  BY <1>1, NamesAreRemotes DEF IInv, Types, Upstreams, PCs
<1> QED
  BY <1>1, <1>2, UrlsKept DEF IInv, NamesAreFree, SwitchIsUnderWay,
     SwitchIsEffective, AtUpdate, StashIsOwn, Unsettled, Pulling

LEMMA StartHolds ==
  ASSUME IInv, Start
  PROVE  IInv' /\ KeepsUrls
<1>1. /\ pc = "idle" /\ pc' = "old_urls" /\ repo' = repo /\ UNCHANGED clone
      /\ remotes' = remotes /\ branches' = branches
      /\ remote' = remote /\ accepted' = accepted /\ autostash' = autostash
      /\ hasChanges' = hasChanges
  BY DEF Start, Goto, locals, clone
<1>2. Types'
  BY <1>1, CloneKept DEF IInv, Types, PCs
<1>3. hasChanges = FALSE /\ "branch" \notin accepted
  BY <1>1 DEF IInv, Types, StashIsOwn, SwitchIsUnderWay, Unsettled, Pulling
<1> QED
  BY <1>1, <1>2, <1>3, UrlsKept DEF IInv, NamesAreFree, SwitchIsUnderWay,
     SwitchIsEffective, AtUpdate, StashIsOwn, Unsettled, Pulling

LEMMA HandleOldUrlsHolds ==
  ASSUME IInv, HandleOldUrls
  PROVE  IInv' /\ KeepsUrls
<1>1. /\ pc = "old_urls" /\ repo' = repo /\ UNCHANGED clone
      /\ remotes' = remotes /\ branches' = branches
      /\ autostash' = autostash /\ hasChanges' = hasChanges
  BY DEF HandleOldUrls, clone
<1>2. /\ pc' \in {"rename", "add_origin", "branch"}
      /\ pc' = "rename" => Origin \in DOMAIN remotes
      /\ pc' = "add_origin" => Origin \notin DOMAIN remotes
      /\ accepted' \subseteq accepted \cup {"url"}
  BY DEF HandleOldUrls, Goto
<1>3. remote' \in Remote
  <2>1. CASE TracksOldUrl /\ remote' = branches[head][1]
    <3>1. branches[head] # NoUpstream /\ head \in DOMAIN branches
      BY <2>1 DEF TracksOldUrl, UrlOf, IInv, Types
    <3> QED
      BY <2>1, <3>1, UpstreamExists DEF IInv
  <2>2. CASE remote' = remote
    BY <2>2 DEF IInv, Types
  <2> QED
    BY <2>1, <2>2 DEF HandleOldUrls
<1>4. Types'
  BY <1>1, <1>2, <1>3, CloneKept DEF IInv, Types, PCs
<1>5. hasChanges = FALSE /\ "branch" \notin accepted
  BY <1>1 DEF IInv, Types, StashIsOwn, SwitchIsUnderWay, Unsettled, Pulling
<1> QED
  BY <1>1, <1>2, <1>4, <1>5, UrlsKept DEF IInv, NamesAreFree, SwitchIsUnderWay,
     SwitchIsEffective, AtUpdate, StashIsOwn, Unsettled, Pulling

LEMMA RenameOriginHolds ==
  ASSUME IInv, RenameOrigin
  PROVE  IInv' /\ KeepsUrls
<1>1. /\ pc = "rename" /\ pc' = "add_origin" /\ repo' = repo /\ head' = head
      /\ dirty' = dirty /\ stash' = stash
      /\ remote' = remote /\ accepted' = accepted /\ autostash' = autostash
      /\ hasChanges' = hasChanges
  BY DEF RenameOrigin, Goto, locals
<1> DEFINE renamed(r, n) == IF r = Origin THEN <<"old", n>> ELSE r
<1>2. PICK n \in First("old", DOMAIN remotes) :
        /\ remotes' = [ r \in (DOMAIN remotes \ {Origin}) \cup {<<"old", n>>} |->
                          IF r = <<"old", n>> THEN remotes[Origin] ELSE remotes[r] ]
        /\ branches' = [ b \in DOMAIN branches |->
                           IF branches[b] = NoUpstream THEN NoUpstream
                           ELSE <<renamed(branches[b][1], n), branches[b][2]>> ]
  BY DEF RenameOrigin
<1> HIDE DEF renamed
<1>3. PICK old \in Remote : old = <<"old", n>> /\ old # Origin /\ old \notin DOMAIN remotes
  BY FirstIsFree, NamesAreRemotes
<1>4. /\ DOMAIN remotes' = (DOMAIN remotes \ {Origin}) \cup {old}
      /\ remotes'[old] = remotes[Origin]
      /\ \A r \in DOMAIN remotes \ {Origin} : remotes'[r] = remotes[r]
  BY <1>2, <1>3
<1>5. Types /\ Origin \in DOMAIN remotes
  BY <1>1 DEF IInv, NamesAreFree
<1>6. DOMAIN branches' = DOMAIN branches
  BY <1>2
<1>7. ASSUME NEW b \in DOMAIN branches
      PROVE  branches'[b] \in Upstreams' /\ UrlOf(b)' = UrlOf(b)
  <2>1. CASE branches[b] = NoUpstream
    <3>1. branches'[b] = NoUpstream
      BY <2>1, <1>2
    <3> QED
      BY <2>1, <3>1 DEF Upstreams, UrlOf
  <2>2. CASE branches[b] # NoUpstream
    <3>1. /\ branches[b][1] \in DOMAIN remotes /\ branches[b][1] \in Remote
          /\ branches[b][2] \in {Default, Dev}
          /\ UrlOf(b) = remotes[branches[b][1]]
      BY <1>5, <2>2, UpstreamExists
    <3>2. PICK r : r = renamed(branches[b][1], n)
      OBVIOUS
    <3>3. branches'[b] = <<r, branches[b][2]>>
      BY <1>2, <2>2, <3>2
    <3>4. r \in DOMAIN remotes' /\ r \in Remote /\ remotes'[r] = remotes[branches[b][1]]
      BY <1>3, <1>4, <3>1, <3>2 DEF renamed
    <3>5. branches'[b] # NoUpstream /\ branches'[b] \in Upstreams'
      BY <3>1, <3>3, <3>4, NamesAreRemotes DEF Upstreams
    <3>6. UrlOf(b)' = remotes'[r]
      BY <3>3, <3>5 DEF UrlOf
    <3> QED
      BY <3>1, <3>4, <3>5, <3>6
  <2> QED
    BY <2>1, <2>2
<1>8. KeepsUrls
  BY <1>6, <1>7 DEF KeepsUrls
<1>9. DOMAIN remotes' \subseteq Remote /\ \A r \in DOMAIN remotes' : remotes'[r] \in Url
  BY <1>4, <1>5 DEF Types
<1>10. Types'
  BY <1>1, <1>5, <1>6, <1>7, <1>9 DEF Types, PCs
<1>11. hasChanges = FALSE /\ "branch" \notin accepted
  BY <1>1 DEF IInv, Types, StashIsOwn, SwitchIsUnderWay, Unsettled, Pulling
<1>12. Origin \notin DOMAIN remotes'
  BY <1>3, <1>4
<1> QED
  BY <1>1, <1>8, <1>10, <1>11, <1>12 DEF IInv, NamesAreFree, SwitchIsUnderWay,
     SwitchIsEffective, AtUpdate, StashIsOwn, Unsettled, Pulling

(* Adding a remote with a name that is free changes no upstream.           *)
LEMMA NewRemote ==
  ASSUME Types, NEW r \in Remote, r \notin DOMAIN remotes, branches' = branches,
         remotes' = [ s \in DOMAIN remotes \cup {r} |->
                        IF s = r THEN "current" ELSE remotes[s] ]
  PROVE  /\ KeepsUrls
         /\ DOMAIN remotes' \subseteq Remote
         /\ \A s \in DOMAIN remotes' : remotes'[s] \in Url
         /\ \A b \in DOMAIN branches' : branches'[b] \in Upstreams'
         /\ r \in DOMAIN remotes' /\ remotes'[r] = "current"
<1>1. /\ DOMAIN remotes' = DOMAIN remotes \cup {r} /\ remotes'[r] = "current"
      /\ \A s \in DOMAIN remotes : remotes'[s] = remotes[s]
  OBVIOUS
<1>2. \A s \in DOMAIN remotes' : remotes'[s] \in Url
  BY <1>1 DEF Types, Url
<1>3. \A b \in DOMAIN branches : branches[b] \in Upstreams'
  BY <1>1 DEF Types, Upstreams
<1>4. ASSUME NEW b \in DOMAIN branches PROVE UrlOf(b)' = UrlOf(b)
  <2>1. CASE branches[b] = NoUpstream
    BY <2>1 DEF UrlOf
  <2>2. CASE branches[b] # NoUpstream
    <3>1. branches[b][1] \in DOMAIN remotes
      BY <2>2, UpstreamExists
    <3> QED
      BY <2>2, <3>1, <1>1 DEF UrlOf
  <2> QED
    BY <2>1, <2>2
<1> QED
  BY <1>1, <1>2, <1>3, <1>4 DEF KeepsUrls, Types

LEMMA AddOriginHolds ==
  ASSUME IInv, AddOrigin
  PROVE  IInv' /\ KeepsUrls
<1>1. /\ pc = "add_origin" /\ repo' = repo /\ branches' = branches /\ head' = head
      /\ dirty' = dirty /\ stash' = stash /\ remote' = Origin
      /\ accepted' = accepted /\ autostash' = autostash /\ hasChanges' = hasChanges
      /\ pc' \in {"checkout_url", "branch"}
      /\ remotes' = [ r \in DOMAIN remotes \cup {Origin} |->
                        IF r = Origin THEN "current" ELSE remotes[r] ]
  BY DEF AddOrigin, Goto
<1>2. Types /\ Origin \notin DOMAIN remotes /\ Origin \in Remote
  BY <1>1, NamesAreRemotes DEF IInv, NamesAreFree
<1>3. /\ KeepsUrls
      /\ DOMAIN remotes' \subseteq Remote
      /\ \A s \in DOMAIN remotes' : remotes'[s] \in Url
      /\ \A b \in DOMAIN branches' : branches'[b] \in Upstreams'
      /\ Origin \in DOMAIN remotes' /\ remotes'[Origin] = "current"
  BY <1>1, <1>2, NewRemote
<1>4. Types'
  BY <1>1, <1>2, <1>3 DEF Types, PCs
<1>5. hasChanges = FALSE /\ "branch" \notin accepted
  BY <1>1 DEF IInv, Types, StashIsOwn, SwitchIsUnderWay, Unsettled, Pulling
<1> QED
  BY <1>1, <1>3, <1>4, <1>5 DEF IInv, NamesAreFree, SwitchIsUnderWay,
     SwitchIsEffective, AtUpdate, StashIsOwn, Unsettled, Pulling

LEMMA HandleBranchSwitchHolds ==
  ASSUME IInv, HandleBranchSwitch
  PROVE  IInv' /\ KeepsUrls
<1>1. /\ pc = "branch" /\ repo' = repo /\ UNCHANGED clone
      /\ remotes' = remotes /\ branches' = branches /\ head' = head
      /\ dirty' = dirty /\ stash' = stash
  BY DEF HandleBranchSwitch, clone
<1>2. CASE Return
  BY <1>1, <1>2, ReturnHolds DEF IInv, Types
<1>3. CASE /\ pc' \in {"find_remote", "check"}
           /\ accepted' = IF pc' = "check" THEN accepted ELSE accepted \cup {"branch"}
           /\ UNCHANGED <<remote, autostash, hasChanges>>
  <2>1. Types'
    BY <1>1, <1>3, CloneKept DEF IInv, Types, PCs
  <2>2. hasChanges = FALSE /\ "branch" \notin accepted
    BY <1>1 DEF IInv, Types, StashIsOwn, SwitchIsUnderWay, Unsettled, Pulling
  <2> QED
    BY <1>1, <1>3, <2>1, <2>2, UrlsKept DEF IInv, NamesAreFree, SwitchIsUnderWay,
       SwitchIsEffective, AtUpdate, StashIsOwn, Unsettled, Pulling
<1> QED
  BY <1>2, <1>3 DEF HandleBranchSwitch, Goto, locals

LEMMA FindRemoteHolds ==
  ASSUME IInv, FindRemote
  PROVE  IInv' /\ KeepsUrls
<1>1. /\ pc = "find_remote" /\ pc' = "checkout_branch" /\ repo' = repo
      /\ branches' = branches /\ head' = head /\ dirty' = dirty /\ stash' = stash
      /\ accepted' = accepted /\ autostash' = autostash /\ hasChanges' = hasChanges
  BY DEF FindRemote, Goto
<1>2. Types
  BY DEF IInv
<1>3. /\ KeepsUrls
      /\ DOMAIN remotes' \subseteq Remote
      /\ \A s \in DOMAIN remotes' : remotes'[s] \in Url
      /\ \A b \in DOMAIN branches' : branches'[b] \in Upstreams'
      /\ remote' \in DOMAIN remotes' /\ remotes'[remote'] = "current"
  <2>1. CASE remotes' = remotes /\ \E r \in DOMAIN remotes : remotes[r] = "current" /\ remote' = r
    BY <1>1, <1>2, <2>1, UrlsKept DEF Types, Upstreams
  <2>2. CASE /\ \/ Origin \notin DOMAIN remotes /\ remote' = Origin
                \/ \E n \in First("new", DOMAIN remotes) : remote' = <<"new", n>>
             /\ remotes' = [ r \in DOMAIN remotes \cup {remote'} |->
                               IF r = remote' THEN "current" ELSE remotes[r] ]
    <3>1. PICK r \in Remote : r = remote' /\ r \notin DOMAIN remotes
      <4>1. remote' \in Remote /\ remote' \notin DOMAIN remotes
        BY <2>2, FirstIsFree, NamesAreRemotes
      <4> QED
        BY <4>1
    <3>2. remotes' = [ s \in DOMAIN remotes \cup {r} |->
                         IF s = r THEN "current" ELSE remotes[s] ]
      BY <2>2, <3>1
    <3> QED
      BY <1>1, <1>2, <3>1, <3>2, NewRemote
  <2> QED
    BY <2>1, <2>2 DEF FindRemote
<1>4. Types'
  BY <1>1, <1>2, <1>3 DEF Types, PCs
<1>5. hasChanges = FALSE
  BY <1>1 DEF IInv, Types, StashIsOwn, Pulling
<1> QED
  BY <1>1, <1>3, <1>4, <1>5 DEF IInv, NamesAreFree, SwitchIsUnderWay,
     SwitchIsEffective, AtUpdate, StashIsOwn, Unsettled, Pulling

(* Both calls of the checkout: the branch is new, or has the upstream that *)
(* is expected already.                                                    *)
LEMMA CheckoutDefaultHolds ==
  ASSUME IInv, CheckoutDefault
  PROVE  IInv' /\ KeepsUrls
<1>1. /\ repo' = repo /\ remotes' = remotes /\ dirty' = dirty /\ stash' = stash
      /\ remote' = remote /\ accepted' = accepted /\ autostash' = autostash
      /\ hasChanges' = hasChanges
      /\ \/ pc = "checkout_url" /\ pc' = "branch"
         \/ pc = "checkout_branch" /\ pc' = "check"
  BY DEF CheckoutDefault, Goto, locals
<1>2. PICK expected : expected = <<remote, Default>>
  OBVIOUS
<1>3. Types
  BY DEF IInv

<1>4. /\ remote \in DOMAIN remotes /\ remotes[remote] = "current" /\ remote \in Remote
      /\ expected # NoUpstream /\ expected \in Upstreams
      /\ expected[1] = remote /\ expected[2] = Default
  <2>1. remote \in DOMAIN remotes /\ remotes[remote] = "current" /\ remote \in Remote
    BY <1>1 DEF IInv, Types, SwitchIsUnderWay
  <2> QED
    BY <1>2, <2>1, NamesAreRemotes DEF Upstreams
<1>5. /\ \A b \in DOMAIN branches : b \in DOMAIN branches' /\ branches'[b] = branches[b]
      /\ \A b \in DOMAIN branches' : branches'[b] \in Upstreams
      /\ DOMAIN branches' \subseteq Branch
      /\ head' \in DOMAIN branches' /\ branches'[head'] = expected
  <2>1. CASE /\ Default \in DOMAIN branches /\ TracksExpected(expected)
             /\ head' = Default /\ branches' = branches
    BY <1>3, <2>1 DEF TracksExpected, Types
  <2>2. CASE /\ ~(Default \in DOMAIN branches /\ TracksExpected(expected))
             /\ head' \in IF Default \in DOMAIN branches THEN FreshBranch(expected)
                          ELSE {Default}
             /\ branches' = [ b \in DOMAIN branches \cup {head'} |->
                                IF b = head' THEN expected ELSE branches[b] ]
    <3>1. head' \in Branch /\ head' \notin DOMAIN branches
      <4>1. CASE Default \in DOMAIN branches
        <5>1. PICK n \in First("cheribuild", DOMAIN branches) : head' = <<"cheribuild", n>>
          BY <2>2, <4>1 DEF FreshBranch
        <5> QED
          BY <5>1, FirstIsFree, NamesAreRemotes
      <4>2. CASE Default \notin DOMAIN branches
        BY <2>2, <4>2, NamesAreRemotes
      <4> QED
        BY <4>1, <4>2
    <3>2. /\ DOMAIN branches' = DOMAIN branches \cup {head'}
          /\ branches'[head'] = expected
          /\ \A b \in DOMAIN branches : branches'[b] = branches[b]
      BY <2>2, <3>1
    <3> QED
      BY <1>3, <1>4, <3>1, <3>2 DEF Types
  <2> QED
    BY <1>2, <2>1, <2>2 DEF CheckoutDefault
<1>6. KeepsUrls
  BY <1>1, <1>5 DEF KeepsUrls, UrlOf
<1>7. Types'
  BY <1>1, <1>3, <1>5 DEF Types, Upstreams, PCs
<1>8. SwitchIsEffective'
  BY <1>1, <1>4, <1>5 DEF SwitchIsEffective, UrlOf
<1>9. hasChanges = FALSE /\ (pc = "checkout_url" => "branch" \notin accepted)
  BY <1>1 DEF IInv, Types, StashIsOwn, SwitchIsUnderWay, Unsettled, Pulling
<1> QED
  BY <1>1, <1>6, <1>7, <1>8, <1>9 DEF IInv, NamesAreFree, SwitchIsUnderWay,
     StashIsOwn, Unsettled, Pulling

-----------------------------------------------------------------------------
(* The rest of update().                                                   *)
LEMMA CheckIfUpToDateHolds ==
  ASSUME IInv, CheckIfUpToDate
  PROVE  IInv' /\ KeepsUrls
<1>1. /\ pc = "check" /\ repo' = repo /\ UNCHANGED clone
      /\ remotes' = remotes /\ branches' = branches /\ head' = head
      /\ dirty' = dirty /\ stash' = stash
  BY DEF CheckIfUpToDate, clone
<1>2. CASE Return
  BY <1>1, <1>2, ReturnHolds DEF IInv, Types
<1>3. CASE /\ pc' = "changes" /\ autostash' \in BOOLEAN /\ accepted' = {}
           /\ remote' = Origin /\ hasChanges' = hasChanges
  <2>1. Types'
    BY <1>1, <1>3, CloneKept, NamesAreRemotes DEF IInv, Types, PCs
  <2>2. hasChanges = FALSE
    BY <1>1 DEF IInv, Types, StashIsOwn, Pulling
  <2> QED
    BY <1>1, <1>3, <2>1, <2>2, UrlsKept DEF IInv, NamesAreFree, SwitchIsUnderWay,
       SwitchIsEffective, AtUpdate, StashIsOwn, Unsettled, Pulling
<1> QED
  BY <1>2, <1>3 DEF CheckIfUpToDate, Goto

LEMMA HandleLocalChangesHolds ==
  ASSUME IInv, HandleLocalChanges
  PROVE  IInv' /\ KeepsUrls
<1>1. /\ pc = "changes" /\ repo' = repo /\ UNCHANGED clone
      /\ remotes' = remotes /\ branches' = branches /\ head' = head
      /\ dirty' = dirty /\ stash' = stash
  BY DEF HandleLocalChanges, clone
<1>2. CASE Return
  BY <1>1, <1>2, ReturnHolds DEF IInv, Types
<1>3. CASE /\ \/ pc' = "pull" /\ hasChanges' = hasChanges
              \/ pc' = "pull" /\ hasChanges' = TRUE /\ autostash = TRUE
              \/ pc' = "stash" /\ hasChanges' = FALSE
           /\ remote' = remote /\ accepted' = accepted /\ autostash' = autostash
  <2>1. hasChanges = FALSE
    BY <1>1 DEF IInv, Types, StashIsOwn, Pulling
  <2>2. hasChanges' \in BOOLEAN
    BY <1>3, <2>1
  <2>3. Types'
    BY <1>1, <1>3, <2>2, CloneKept DEF IInv, Types, PCs
  <2> QED
    BY <1>1, <1>3, <2>1, <2>3, UrlsKept DEF IInv, NamesAreFree, SwitchIsUnderWay,
       SwitchIsEffective, AtUpdate, StashIsOwn, Unsettled, Pulling
<1> QED
  <2>1. autostash \in BOOLEAN
    BY DEF IInv, Types
  <2> QED
    BY <1>2, <1>3, <2>1 DEF HandleLocalChanges, Goto, locals

LEMMA OwnEntry ==
  ASSUME Types, Len(stash) < MaxStash, stash' = <<"cheribuild">> \o stash
  PROVE  /\ stash' \in Seq(Entry) /\ Len(stash') <= MaxStash
         /\ stash' # <<>> /\ Head(stash') = "cheribuild"
<1>1. stash \in Seq(Entry) /\ Len(stash) \in Nat
  BY LenProperties DEF Types
<1>2. stash' \in Seq(Entry) /\ Len(stash') = Len(stash) + 1 /\ stash'[1] = "cheribuild"
  BY <1>1 DEF Entry
<1>3. stash' # <<>> /\ Head(stash') = "cheribuild"
  BY <1>1, <1>2
<1> QED
  BY <1>1, <1>2, <1>3, GitAssumption

LEMMA StashChangesHolds ==
  ASSUME IInv, StashChanges
  PROVE  IInv' /\ KeepsUrls
<1>1. /\ pc = "stash" /\ pc' = "pull" /\ repo' = repo /\ remotes' = remotes
      /\ branches' = branches /\ head' = head /\ remote' = remote
      /\ accepted' = accepted /\ autostash' = autostash
      /\ dirty' = FALSE /\ hasChanges' = dirty /\ Len(stash) < MaxStash
      /\ stash' = IF dirty THEN <<"cheribuild">> \o stash ELSE stash
  BY DEF StashChanges, Goto, Stashed
<1>2. Types /\ dirty \in BOOLEAN
  BY DEF IInv, Types
<1>3. /\ stash' \in Seq(Entry) /\ Len(stash') <= MaxStash
      /\ hasChanges' => stash' # <<>> /\ Head(stash') = "cheribuild"
  <2>1. CASE dirty
    BY <1>1, <1>2, <2>1, OwnEntry
  <2>2. CASE ~dirty
    BY <1>1, <1>2, <2>2 DEF Types
  <2> QED
    BY <2>1, <2>2
<1>4. Types'
  BY <1>1, <1>2, <1>3 DEF Types, Upstreams, PCs
<1> QED
  BY <1>1, <1>3, <1>4, UrlsKept DEF IInv, NamesAreFree, SwitchIsUnderWay,
     SwitchIsEffective, AtUpdate, StashIsOwn, Unsettled, Pulling

LEMMA PullHolds ==
  ASSUME IInv, Pull
  PROVE  IInv' /\ KeepsUrls
<1>1. /\ pc = "pull" /\ pc' = "submodules" /\ repo' = repo /\ remotes' = remotes
      /\ branches' = branches /\ head' = head /\ remote' = remote
      /\ accepted' = accepted /\ autostash' = autostash /\ hasChanges' = hasChanges
      /\ \/ dirty' = dirty /\ stash' = stash
         \/ /\ autostash /\ Len(stash) < MaxStash /\ dirty' = FALSE
            /\ stash' = <<"cheribuild">> \o stash
  BY DEF Pull, Goto, locals
<1>2. Types /\ dirty \in BOOLEAN
  BY DEF IInv, Types
<1>3. /\ stash' \in Seq(Entry) /\ Len(stash') <= MaxStash /\ dirty' \in BOOLEAN
      /\ stash' = stash \/ autostash
  <2>1. CASE dirty' = dirty /\ stash' = stash
    BY <1>2, <2>1 DEF Types
  <2>2. CASE /\ autostash /\ Len(stash) < MaxStash /\ dirty' = FALSE
             /\ stash' = <<"cheribuild">> \o stash
    BY <1>2, <2>2, OwnEntry
  <2> QED
    BY <1>1, <2>1, <2>2
<1>4. Types'
  BY <1>1, <1>2, <1>3 DEF Types, Upstreams, PCs
<1> QED
  BY <1>1, <1>3, <1>4, UrlsKept DEF IInv, NamesAreFree, SwitchIsUnderWay,
     SwitchIsEffective, AtUpdate, StashIsOwn, Unsettled, Pulling

LEMMA UpdateSubmodulesHolds ==
  ASSUME IInv, UpdateSubmodules
  PROVE  IInv' /\ KeepsUrls
<1>1. /\ pc = "submodules" /\ repo' = repo /\ UNCHANGED clone
      /\ remotes' = remotes /\ branches' = branches /\ head' = head
      /\ dirty' = dirty /\ stash' = stash
  BY DEF UpdateSubmodules, clone
<1>2. CASE Return
  BY <1>1, <1>2, ReturnHolds DEF IInv, Types
<1>3. CASE hasChanges /\ ~autostash /\ pc' = "pop" /\ UNCHANGED locals
  <2>1. /\ remote' = remote /\ accepted' = accepted /\ autostash' = autostash
        /\ hasChanges' = hasChanges
    BY <1>3 DEF locals
  <2>2. Types'
    BY <1>1, <1>3, <2>1, CloneKept DEF IInv, Types, PCs
  <2> QED
    BY <1>1, <1>3, <2>1, <2>2, UrlsKept DEF IInv, NamesAreFree, SwitchIsUnderWay,
       SwitchIsEffective, AtUpdate, StashIsOwn, Unsettled, Pulling
<1> QED
  BY <1>2, <1>3 DEF UpdateSubmodules, Goto

LEMMA PopHolds ==
  ASSUME IInv, Pop
  PROVE  IInv' /\ KeepsUrls
<1>1. /\ Return /\ UNCHANGED <<repo, remotes, branches, head>>
      /\ stash # <<>> /\ dirty' = TRUE /\ stash' \in {stash, Tail(stash)}
  BY DEF Pop
<1>2. stash \in Seq(Entry) /\ Len(stash) <= MaxStash /\ Len(stash) \in Nat
  BY LenProperties DEF IInv, Types
<1>3. Tail(stash) \in Seq(Entry) /\ Len(Tail(stash)) = Len(stash) - 1
  BY <1>1, <1>2, HeadTailProperties
<1>4. stash' \in Seq(Entry) /\ Len(stash') <= MaxStash
  BY <1>1, <1>2, <1>3, GitAssumption
<1> QED
  BY <1>1, <1>4, ReturnHolds

LEMMA FailHolds ==
  ASSUME IInv, Fail
  PROVE  IInv' /\ KeepsUrls
BY ReturnHolds DEF Fail, clone, IInv, Types

LEMMA StepHolds ==
  ASSUME IInv, [Next]_vars
  PROVE  IInv' /\ KeepsUrls
<1>1. CASE Next
  BY <1>1, UserHolds, StartHolds, HandleOldUrlsHolds, RenameOriginHolds, AddOriginHolds,
     HandleBranchSwitchHolds, FindRemoteHolds, CheckoutDefaultHolds,
     CheckIfUpToDateHolds, HandleLocalChangesHolds, StashChangesHolds, PullHolds,
     UpdateSubmodulesHolds, PopHolds, FailHolds
     DEF Next
<1>2. CASE UNCHANGED vars
  <2>1. UNCHANGED <<repo, clone, remotes, branches, head, stash, pc, remote, accepted, autostash, hasChanges>>
    BY <1>2 DEF vars, clone, locals
  <2>2. Types'
    BY <2>1, CloneKept DEF IInv, Types
  <2> QED
    BY <2>1, <2>2, UrlsKept DEF IInv, NamesAreFree, SwitchIsUnderWay,
       SwitchIsEffective, AtUpdate, UrlOf, StashIsOwn
<1> QED
  BY <1>1, <1>2

-----------------------------------------------------------------------------
(* IInv holds in every state, for any bounds.                              *)
THEOREM Invariance == Spec => []IInv
<1>1. Init => IInv
  BY InitHolds
<1>2. IInv /\ [Next]_vars => IInv'
  BY StepHolds
<1> QED
  BY <1>1, <1>2, PTL DEF Spec

(* The variables of the clone and of GitRepository.update() have their     *)
(* types; every upstream names a remote that exists.                       *)
THEOREM TypeCorrect == Spec => []TypeOK
<1>1. IInv => TypeOK
  BY DEF IInv, Types, TypeOK, Entry
<1> QED
  BY <1>1, Invariance, PTL

(* "git stash pop" takes the changes that this update has put away, and    *)
(* there are some, however often updates failed before.                    *)
THEOREM PopsItsOwn == Spec => []OwnStashIsPopped
<1>1. IInv => OwnStashIsPopped
  BY DEF IInv, StashIsOwn, OwnStashIsPopped
<1> QED
  BY <1>1, Invariance, PTL

(* What is updated after the user has agreed to switch is a branch that    *)
(* tracks the default branch of the current URL.                           *)
THEOREM SwitchEffective == Spec => []SwitchIsEffective
<1>1. IInv => SwitchIsEffective
  BY DEF IInv
<1> QED
  BY <1>1, Invariance, PTL

(* No step of an update makes a branch that exists track another URL.      *)
THEOREM UrlsAreKept == Spec => BranchesKeepTheirUrl
<1>1. IInv /\ [Next]_vars
        => [\A b \in DOMAIN branches : b \in DOMAIN branches' /\ UrlOf(b)' = UrlOf(b)]_vars
  BY StepHolds DEF KeepsUrls
<1> QED
  BY <1>1, Invariance, PTL DEF Spec, BranchesKeepTheirUrl
=============================================================================
