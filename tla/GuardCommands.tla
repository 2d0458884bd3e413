--------------------------- MODULE GuardCommands ---------------------------
(***************************************************************************)
(* What the guard makes of a shell command (src/src/guard-commands.ts,     *)
(* guard-shell.ts), and what the shell does with it.                       *)
(*                                                                         *)
(* A command is the sequence of its segments.  A segment is what the       *)
(* tokenizer and the resolution of wrappers leave of its text:             *)
(*   wrapper  what stands before the command: nothing, a wrapper such as   *)
(*            sudo, corepack, a wrapper that only prints (`command -v`),   *)
(*            or one with an option the guard does not know                *)
(*   exe      the executable; "npm" stands for npm, pnpm and bun, "npx"    *)
(*            for npx and bunx, "sh" for the nested shells.  "carrier" and  *)
(*            "opaque" are words the guard does not know that make the      *)
(*            shell run something else: a carrier's text names a package    *)
(*            manager (`timeout 60 npm i`, `xargs npm i`, `if`, `{`,        *)
(*            `eval "npm i"`), the text of the other does not (`$PM i`,     *)
(*            `make`, `./build.sh`)                                         *)
(*   sub      the subcommand, or what a carrier runs: "install" or an       *)
(*            alias of it, "update" (known to the guard as no install, and  *)
(*            installs: update, dedupe, link, rebuild), "exec" (a runner    *)
(*            that prefers local binaries), "dlx", "create", "query" (does  *)
(*            not install), "unknown"                                       *)
(*   arg      the argument that counts: a plain binary name, a scoped or    *)
(*            versioned one, --package, a variable, an install keyword      *)
(*   inside   what its substitutions or its nested script contain: nothing  *)
(*            of a package manager, the word, an install, or an install     *)
(*            that the text does not show (a script file, a variable)       *)
(*   names    the files that its redirections and file commands name, from  *)
(*            the directory of the event                                    *)
(*   writes   the files that it writes, which may be others: after a `cd`,  *)
(*            of a directory, by a variable, in a nested shell or through   *)
(*            another program; `cp f g` names f and does not write it       *)
(***************************************************************************)
EXTENDS Integers, Sequences

CONSTANT Paths  \* the files a command may write

Segments ==
  [wrapper : {"none", "sudo", "corepack", "prints", "unknown"},
   exe     : {"npm", "yarn", "npx", "pnpx", "sh", "safeinstall", "carrier", "opaque", "other"},
   sub     : {"none", "install", "update", "exec", "dlx", "create", "query", "unknown"},
   arg     : {"none", "bin", "scoped", "package", "variable", "install"},
   inside  : {"none", "other", "word", "install", "hidden"},
   names   : SUBSET Paths,
   writes  : SUBSET Paths]

Commands == Seq(Segments)

\* INSTALL_HINT_PATTERN: the text names a package manager.
Hint(s) ==
  \/ s.exe \in {"npm", "yarn", "carrier"} \/ (s.exe = "safeinstall" /\ s.sub = "install")
  \/ s.inside \in {"word", "install"}

\* findCommandTokenIndex finds the command.
Resolved(s) == s.wrapper \notin {"prints", "unknown"}

HasSubstitution(s) == s.exe # "sh" /\ s.inside # "none"

\* The runners, and when one goes to the registry in any case.  `create`
\* without a target prints its help.
IsRunner(s) ==
  /\ Resolved(s)
  /\ \/ s.exe \in {"npx", "pnpx"}
     \/ s.exe = "npm" /\ s.sub \in {"exec", "dlx", "create"}
     \/ s.exe = "yarn" /\ s.sub \in {"dlx", "create"}
  /\ s.exe \in {"npm", "yarn"} /\ s.sub = "create" => s.arg # "none"

FetchesRemote(s) ==
  s.exe = "pnpx" \/ (s.exe \in {"npm", "yarn"} /\ s.sub \in {"dlx", "create"}) \/ s.arg = "package"

\* Fault: only what stands at the top level of the segment counts.
Unanalyzable_TopLevel(s) ==
  \/ Resolved(s) /\ s.exe = "yarn" /\ s.sub \in {"none", "install"}
  \/ Resolved(s) /\ s.exe = "npm" /\ s.sub = "install" /\ (HasSubstitution(s) \/ s.arg = "variable")

\* The segments analyzeSegmentCore gives up on.
Unanalyzable(s) ==
  \/ s.wrapper = "unknown" /\ Hint(s)
  \/ ~Resolved(s) /\ HasSubstitution(s) /\ Hint(s)
  \/ /\ Resolved(s)
     /\ \/ s.exe = "sh" /\ Hint(s)
        \/ s.exe = "yarn" /\ s.sub \in {"none", "install"}
        \/ s.exe \in {"carrier", "opaque", "other"} /\ HasSubstitution(s) /\ Hint(s)
        \/ s.exe = "npm" /\ s.sub = "unknown" /\ s.arg = "install"
        \/ s.exe = "npm" /\ s.sub = "install" /\ (HasSubstitution(s) \/ s.arg = "variable")

IsInstall(s) ==
  Resolved(s) /\ s.exe = "npm" /\ s.sub = "install" /\ ~Unanalyzable(s)

\* analyzeShellCommand: the segments of each kind.
Installs(cmd)   == {i \in DOMAIN cmd : IsInstall(cmd[i])}
Runners(cmd)    == {i \in DOMAIN cmd : IsRunner(cmd[i])}
Unanalyzed(cmd) == {i \in DOMAIN cmd : Unanalyzable(cmd[i])}

\* collectWriteTargets: the paths that the text names.
WriteTargets(cmd) == UNION {cmd[i].names : i \in DOMAIN cmd}

Routed(s) ==
  [s EXCEPT !.exe = "safeinstall", !.wrapper = IF s.wrapper = "corepack" THEN "none" ELSE @]

\* Fault: only the first install is replaced.
Rewritten_First(cmd) ==
  [i \in DOMAIN cmd |->
     IF i \in Installs(cmd) /\ \A j \in Installs(cmd) : i <= j THEN Routed(cmd[i]) ELSE cmd[i]]

\* rewrittenCommand: every install goes through the SafeInstall CLI.
Rewritten(cmd) ==
  [i \in DOMAIN cmd |-> IF IsInstall(cmd[i]) THEN Routed(cmd[i]) ELSE cmd[i]]
-----------------------------------------------------------------------------
(* What the shell does, outside the guard *)

\* The files that the command writes.
Touched(cmd) == UNION {cmd[i].writes : i \in DOMAIN cmd}

\* An install in the forms the guard looks for: at the top level, after a flag
\* that takes a value, or of yarn.
OwnInstall(s) ==
  \/ s.exe = "npm" /\ (s.sub = "install" \/ (s.sub = "unknown" /\ s.arg = "install"))
  \/ s.exe = "yarn" /\ s.sub \in {"none", "install"}

\* A package manager installs, in one of those forms or another: behind a word
\* the guard does not know, as an update, in a substitution, in a nested shell,
\* out of sight.  The script of a nested shell that is only looked up does not
\* run, nor does what `command -v` prints.
RunsRawInstall(s) ==
  \/ s.inside \in {"install", "hidden"} /\ ~(s.exe = "sh" /\ s.wrapper = "prints")
  \/ /\ s.wrapper # "prints"
     /\ \/ OwnInstall(s)
        \/ s.sub = "update" /\ s.exe \in {"npm", "yarn"}
        \/ s.sub \in {"install", "update"} /\ s.exe \in {"carrier", "opaque"}

\* The segment's own command is one that the guard knows not to install; it
\* does not look into the substitutions of such a segment.
KnownOther(s) ==
  /\ Resolved(s)
  /\ \/ s.exe \in {"safeinstall", "npx", "pnpx"}
     \/ s.exe \in {"npm", "yarn"} /\ ~OwnInstall(s)

\* What the guard's analysis of text cannot or does not look for: a segment
\* that names no package manager, a subcommand that installs by another name,
\* a package manager behind a word the guard does not know, a substitution in
\* a command it knows not to install.
Overlooked(s) ==
  \/ ~Hint(s)
  \/ Resolved(s) /\ s.exe \in {"npm", "yarn"} /\ s.sub = "update"
  \/ Resolved(s) /\ s.exe = "carrier" /\ ~HasSubstitution(s)
  \/ KnownOther(s) /\ HasSubstitution(s)

\* A runner downloads what it runs, given whether its binary is installed.
Fetches(s, installed) ==
  IsRunner(s) /\ (FetchesRemote(s) \/ s.arg # "bin" \/ ~installed)
=============================================================================
