------------------------------ MODULE Workbench ------------------------------
(***************************************************************************)
(* The user's configuration as the surface serves it and runs consume it:  *)
(* the settings document (event-store/settings.rs), the keychain           *)
(* (providers/keychain.rs), the repository registry (event-store/repos.rs, *)
(* git clone), the default session and the task worktree that a run is     *)
(* given (scheduler.rs).                                                   *)
(*                                                                         *)
(* Each connection is served by a thread of its own; one locked store call *)
(* is one step, and so is one call of git or of the keychain.              *)
(***************************************************************************)
EXTENDS Naturals, FiniteSets, Sequences

CONSTANTS Conns,        \* surface connections
          Urls, DirOf,  \* clone URLs and the directory the last segment names
          Secrets,      \* API keys a user may enter
          MaxAsks,      \* bound: requests made
          MaxDeaths     \* bound: crashes of the core

Providers == {"openai", "anthropic"}
Unset == "unset"
CredentialEnvFor(provider) ==
  IF provider = "anthropic" THEN "ANTHROPIC_API_KEY" ELSE "OPENAI_API_KEY"

VARIABLES doc,       \* the settings document
          keychain,  \* credential name -> secret or Unset
          disk,      \* clone directory -> Unset, "partial" or the URL cloned there
          repos,     \* rows of recent_repos: [id, url]
          sessions,  \* default sessions created
          jobs,      \* tasks: [session, repo, tree, branch]
          call,      \* request under way on each connection
          asked,     \* bounds: [asks, deaths]
          want,      \* history: the last value a merge gave to each field
          filed,     \* history: [cred, named, current]: keys stored, and why
          crowded    \* history: two requests found no session

benchVars == <<doc, keychain, disk, repos, sessions, jobs, call, asked, want, filed, crowded>>

Fields == {"provider", "model"}
NoCall == [at |-> "idle"]
Provider(d) == IF d["provider"] = Unset THEN "openai" ELSE d["provider"]

Init ==
  /\ doc = [f \in Fields |-> Unset]
  /\ keychain = [c \in {"OPENAI_API_KEY", "ANTHROPIC_API_KEY"} |-> Unset]
  /\ disk = [u \in {DirOf[x] : x \in Urls} |-> Unset]
  /\ repos = {}
  /\ sessions = 0
  /\ jobs = <<>>
  /\ call = [c \in Conns |-> NoCall]
  /\ asked = [asks |-> 0, deaths |-> 0]
  /\ want = [f \in Fields |-> Unset]
  /\ filed = {}
  /\ crowded = FALSE

Begin(c, r) ==
  /\ call[c] = NoCall /\ asked.asks < MaxAsks
  /\ asked' = [asked EXCEPT !.asks = asked.asks + 1]
  /\ call' = [call EXCEPT ![c] = r]
Goto(c, r) == call' = [call EXCEPT ![c] = r] /\ UNCHANGED asked

-----------------------------------------------------------------------------
(* UpdateSettings                                                          *)

\* Mutant: an empty field resets the stored value.
MergedBlank(d, patch) == patch

\* settings::merge: an empty field keeps the stored value.
Merged(d, patch) == [f \in Fields |-> IF patch[f] = Unset THEN d[f] ELSE patch[f]]

\* The merge commits first; a key is only bound after it.
UpdateSettings(c, patch, key) ==
  /\ Begin(c, IF key = Unset THEN NoCall
              ELSE [at |-> "bind", named |-> patch["provider"], key |-> key,
                    current |-> {Provider(Merged(doc, patch))}])
  /\ doc' = Merged(doc, patch)
  /\ want' = [f \in Fields |-> IF patch[f] = Unset THEN want[f] ELSE patch[f]]
  /\ UNCHANGED <<keychain, disk, repos, sessions, jobs, filed, crowded>>

\* The provider is the update's own, else the stored one as it is now.
BindKey(c) ==
  /\ call[c].at = "bind"
  /\ Goto(c, [at |-> "file", named |-> call[c].named, key |-> call[c].key,
              current |-> call[c].current \cup {Provider(doc)},
              cred |-> CredentialEnvFor(IF call[c].named # Unset THEN call[c].named
                                        ELSE Provider(doc))])
  /\ UNCHANGED <<doc, keychain, disk, repos, sessions, jobs, want, filed, crowded>>

\* store_secret; a locked keychain is an error after the merge was kept.
StoreSecret(c, works) ==
  /\ call[c].at = "file"
  /\ Goto(c, NoCall)
  /\ keychain' = IF works THEN [keychain EXCEPT ![call[c].cred] = call[c].key] ELSE keychain
  /\ filed' = IF works THEN filed \cup {[cred |-> call[c].cred, named |-> call[c].named,
                                         key |-> call[c].key, current |-> call[c].current]}
              ELSE filed
  /\ UNCHANGED <<doc, disk, repos, sessions, jobs, want, crowded>>

-----------------------------------------------------------------------------
(* RegisterRepo                                                            *)

\* GitRepo::clone refuses a directory that has content.
RegisterRepo(c, url) ==
  /\ Begin(c, IF disk[DirOf[url]] = Unset THEN [at |-> "clone", url |-> url] ELSE NoCall)
  /\ UNCHANGED <<doc, keychain, disk, repos, sessions, jobs, want, filed, crowded>>

\* `git clone` itself fails when another clone got there first, or at the remote.
Clone(c, works) ==
  /\ call[c].at = "clone"
  /\ LET dir == DirOf[call[c].url]
         cloned == works /\ disk[dir] = Unset
     IN  /\ disk' = IF cloned THEN [disk EXCEPT ![dir] = call[c].url] ELSE disk
         /\ Goto(c, IF cloned THEN [at |-> "row", url |-> call[c].url] ELSE NoCall)
  /\ UNCHANGED <<doc, keychain, repos, sessions, jobs, want, filed, crowded>>

\* Every registration mints an id of its own.
RegisterRow(c) ==
  /\ call[c].at = "row"
  /\ repos' = repos \cup {[id |-> Cardinality(repos) + 1, url |-> call[c].url]}
  /\ Goto(c, NoCall)
  /\ UNCHANGED <<doc, keychain, disk, sessions, jobs, want, filed, crowded>>

-----------------------------------------------------------------------------
(* CreateTask without a session, and the worktree of its run               *)

\* first_session: any of them, when there are several; repo 0 is "not chosen".
CreateTask(c, repo) ==
  /\ \/ sessions = 0 /\ Begin(c, [at |-> "session", repo |-> repo])
     \/ \E s \in 1..sessions : Begin(c, [at |-> "task", repo |-> repo, session |-> s])
  /\ UNCHANGED <<doc, keychain, disk, repos, sessions, jobs, want, filed, crowded>>

EnsureDefaultSession(c) ==
  /\ call[c].at = "session"
  /\ sessions' = sessions + 1
  /\ crowded' = (crowded \/ \E d \in Conns \ {c} : call[d].at = "session")
  /\ Goto(c, [at |-> "task", repo |-> call[c].repo, session |-> sessions + 1])
  /\ UNCHANGED <<doc, keychain, disk, repos, jobs, want, filed>>

MintTask(c) ==
  /\ call[c].at = "task"
  /\ jobs' = Append(jobs, [session |-> call[c].session, repo |-> call[c].repo,
                           tree |-> Unset, branch |-> FALSE])
  /\ Goto(c, NoCall)
  /\ UNCHANGED <<doc, keychain, disk, repos, sessions, want, filed, crowded>>

Row(id) == {r \in repos : r.id = id}

\* RegisteredRepoSource, or the configured source when the id is not known.
\* An existing worktree is reused; a branch left without one is an error.
Source(j) == IF Row(jobs[j].repo) = {} THEN "default"
             ELSE (CHOOSE r \in Row(jobs[j].repo) : TRUE).url

AllocateWorktree(j) ==
  /\ jobs[j].tree = Unset /\ ~jobs[j].branch
  /\ jobs' = [jobs EXCEPT ![j] = [jobs[j] EXCEPT !.tree = Source(j), !.branch = TRUE]]
  /\ UNCHANGED <<doc, keychain, disk, repos, sessions, call, asked, want, filed, crowded>>

\* The core dies: requests are gone; a clone or a `worktree add` under way is
\* left half done.
Die(half, j) ==
  /\ asked.deaths < MaxDeaths
  /\ asked' = [asked EXCEPT !.deaths = asked.deaths + 1]
  /\ call' = [c \in Conns |-> NoCall]
  /\ disk' = [d \in DOMAIN disk |->
       IF half /\ disk[d] = Unset /\ \E c \in Conns : call[c].at = "clone" /\ DirOf[call[c].url] = d
       THEN "partial" ELSE disk[d]]
  /\ jobs' = IF j \in DOMAIN jobs THEN [jobs EXCEPT ![j] = [jobs[j] EXCEPT !.branch = TRUE]] ELSE jobs
  /\ UNCHANGED <<doc, keychain, repos, sessions, want, filed, crowded>>

Patches == {[f \in Fields |-> IF f = "provider" THEN p ELSE m] :
              p \in Providers \cup {Unset}, m \in {Unset, "m"}}

Next ==
  \/ \E c \in Conns :
       \/ \E patch \in Patches, key \in Secrets \cup {Unset} : UpdateSettings(c, patch, key)
       \/ BindKey(c)
       \/ \E works \in BOOLEAN : StoreSecret(c, works) \/ Clone(c, works)
       \/ \E u \in Urls : RegisterRepo(c, u)
       \/ RegisterRow(c)
       \/ \E repo \in 0..Cardinality(repos) : CreateTask(c, repo)
       \/ EnsureDefaultSession(c) \/ MintTask(c)
  \/ \E j \in DOMAIN jobs : AllocateWorktree(j)
  \/ \E half \in BOOLEAN, j \in {0} \cup DOMAIN jobs : Die(half, j)

BenchSpec == Init /\ [][Next]_benchVars

-----------------------------------------------------------------------------
\* No update loses another's field (the merge is one locked store call).
NoLostSetting == doc = want

\* A key is filed under the provider its update named, or else under one that
\* was current between the merge and the binding (UpdateSettings).
KeysFiledRight ==
  \A k \in filed :
    \E p \in (IF k.named # Unset THEN {k.named} ELSE k.current) : k.cred = CredentialEnvFor(p)

\* A registered repository is a complete clone of its own URL, even when two
\* URLs name the same directory, and a run works in the repository its task
\* was created for.
ReposAreReal ==
  /\ \A r \in repos : disk[DirOf[r.url]] = r.url
  /\ \A j \in DOMAIN jobs : (jobs[j].tree # Unset /\ jobs[j].repo # 0) =>
       \E r \in repos : r.id = jobs[j].repo /\ r.url = jobs[j].tree

\* Tasks share one default session, unless two first requests overlapped.
OneDefaultSession ==
  ~crowded => \A i, j \in DOMAIN jobs : jobs[i].session = jobs[j].session

BenchSound == NoLostSetting /\ KeysFiledRight /\ ReposAreReal /\ OneDefaultSession

=============================================================================
