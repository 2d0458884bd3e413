--------------------------- MODULE MCGuardSession ---------------------------
(***************************************************************************)
(* GuardSession for TLC: the commands an agent issues, and the two ends of *)
(* a project's life, when it is set up and when agents work in it.         *)
(***************************************************************************)
EXTENDS GuardSession

CONSTANTS g, i  \* a guard install and an init

PathSet == Protected \cup {"notes"}

Plain == [wrapper |-> "none", exe |-> "other", sub |-> "none", arg |-> "none",
          inside |-> "none", names |-> {}, writes |-> {}]

Npm(sub, arg) == [Plain EXCEPT !.exe = "npm", !.sub = sub, !.arg = arg]

\* npm install x; corepack pnpm i; npx eslint; pnpm dlx x
Add      == Npm("install", "bin")
Corepack == [Npm("install", "none") EXCEPT !.wrapper = "corepack"]
Npx      == [Plain EXCEPT !.exe = "npx", !.arg = "bin"]
Dlx      == Npm("dlx", "bin")
\* rm .mcp.json; rm -r .safeinstall; cd .claude && rm settings.json; node clean.js
ToTools  == [Plain EXCEPT !.names = {"tools"}, !.writes = {"tools"}]
ToLock   == [Plain EXCEPT !.names = {"lock"}, !.writes = {"lock"}]
Elsewhere == [Plain EXCEPT !.names = {"notes"}, !.writes = {"claude"}]
Script   == [Plain EXCEPT !.writes = {"lock"}]
\* timeout 60 npm i x; $PM install; npm update
Blind == <<[Add EXCEPT !.exe = "carrier"], [Add EXCEPT !.exe = "opaque"], Npm("update", "none")>>

Singles ==
  {Add, Npx, Dlx, ToLock, Elsewhere, Script,
   \* npm --flag x add y; npm run $(npm i y)
   Npm("unknown", "install"),
   [Npm("query", "none") EXCEPT !.inside = "install"],
   \* yarn add x; bash -c 'npm i'; git log $(npm i)
   [Npm("install", "bin") EXCEPT !.exe = "yarn"], [Plain EXCEPT !.exe = "sh", !.inside = "install"],
   [Plain EXCEPT !.inside = "install"],
   \* sudo --odd npm i
   [Add EXCEPT !.wrapper = "unknown"]}

Lines == {<<>>, <<Add, Corepack>>, <<Add, Npx>>, <<Add, ToTools>>, Blind} \cup {<<s>> : s \in Singles}

AskedNames == [r \in Setups |-> IF r = i THEN {"claude", "codex"} ELSE {}]

\* A project that is to be set up, or one that is.
MCInit ==
  /\ SessionInit
  /\ \/ /\ hooks["cursor"] = Absent /\ hooks["codex"] \in {Absent, Broken} /\ hooks["claude"] # Broken
        /\ installed /\ (lock = NoLock \/ mirror)
     \/ policy = "custom" /\ \A c \in Clients : Guards(hooks[c])

Quiet == \A k \in Calls : call[k] = Idle

\* Two setups and the edits before the agents begin; the init or the edits
\* beside them.
Working == pc[g] = "idle" /\ (IF pc[i] = "idle" THEN hooks["cursor"] # Absent ELSE edits = 0 /\ policy # "absent")

\* What matters beside an init or after an edit; all commands otherwise.
Beside == {<<Add>>, <<Npx>>, <<ToLock>>, <<Elsewhere>>, <<Script>>}

Chosen(k) == call[k] = Idle /\ (edits > 0 \/ pc[i] # "idle") => call'[k].command \in Beside

MCNext ==
  \/ Project
  \/ Modules /\ \E k \in Calls : call[k] # Idle /\ Runners(call[k].command) # {}
  \/ Working /\ \E k \in Calls : CallStep(k) /\ Chosen(k)

MCSpec == MCInit /\ [][MCNext]_sessionVars

Phases == Quiet \/ Working
=============================================================================
