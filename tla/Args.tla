---------------------------------- MODULE Args ----------------------------------
(***************************************************************************)
(* From a command line to what one eg process does: the parser reads words *)
(* into the low level arguments, once for the command line and once more   *)
(* with the configuration file before it; these are converted to high      *)
(* level arguments, and they decide between the sparse index and a scan.   *)
(* The rebuild child of the daemon does the same with the words of the     *)
(* query that asked for it.                                                *)
(*                                                                         *)
(* The files of the directory eg runs in: "d" is a directory and "f" a     *)
(* file that holds the pattern Foo.  "-" is standard input.                *)
(***************************************************************************)
EXTENDS Flags, SequencesExt

CONSTANTS
    Themes,     \* sets of words: a command line is made of one of them
    MaxWords,   \* for each, how many words the process is given at most
    RcHelps     \* the configuration may ask for help, or for a version

\* A value is a text: it is told apart from a switch that is on or off.
ASSUME ThemesAssumption ==
    /\ \A theme \in Themes : \A w \in theme :
           DOMAIN w = {"name", "value"} /\ w.value \notin {"on", "off"}
    /\ MaxWords \in [Themes -> Nat] /\ RcHelps \in BOOLEAN

VARIABLES
    theme,      \* the words this process is given
    env,        \* what its standard streams are connected to
    rc,         \* the words of the file RIPGREP_CONFIG_PATH names
    line,       \* the words of the command line
    parser,     \* the low level arguments so far
    stage,      \* "cli", "low", "hi" or "done"
    hi,         \* the high level arguments
    outcome     \* what the process does

vars == <<theme, env, rc, line, parser, stage, hi, outcome>>

-----------------------------------------------------------------------------
(***************************************************************************)
(* The parser (flags/parse.rs).                                            *)
(***************************************************************************)

Fresh == [low |-> LowArgs, awaits |-> "none", failed |-> FALSE]

Fails(p) == [p EXCEPT !.failed = TRUE]

SpecialModes == [h |-> "HelpShort", help |-> "HelpLong",
                 V |-> "VersionShort", version |-> "VersionLong"]

TextOf(w) == IF w.name = "" THEN w.value ELSE "--x"

Repeat(p) ==
    LET n == p.low.unrestricted + 1
    IN  IF n > 3 THEN Fails(p)
        ELSE [p EXCEPT !.low = Apply(Apply(@, [unrestricted |-> n]), Levels[n])]

\* Flag::update of a flag with "on", "off" or a text.
Update(p, flag, value) ==
    CASE value \notin DOMAIN FLAGS[flag].update -> Fails(p)
      [] value \in DOMAIN FLAGS[flag].update /\ flag = "Unrestricted" -> Repeat(p)
      [] OTHER -> [p EXCEPT !.low = Apply(@, FLAGS[flag].update[value])]

\* A switch takes no value, a flag takes the value attached or the next word.
Match(p, flag, w) ==
    LET negated == w.name \in FLAGS[flag].negated
        switch  == "on" \in DOMAIN FLAGS[flag].update
    IN  CASE negated \/ switch ->
               IF w.value # "none" THEN Fails(p)
               ELSE Update(p, flag, IF negated THEN "off" ELSE "on")
          [] OTHER ->
               IF w.value # "none" THEN Update(p, flag, w.value)
               ELSE [p EXCEPT !.awaits = flag]

\* One turn of the loop of Parser::parse.
Step(p, w) ==
    CASE p.failed -> p
      [] ~p.failed /\ p.awaits # "none" ->
           [Update(p, p.awaits, TextOf(w)) EXCEPT !.awaits = "none"]
      [] OTHER ->
           CASE w.name = "" -> [p EXCEPT !.low = Apply(@, [positional |-> <<w.value>>])]
             [] w.name \in DOMAIN SpecialModes ->
                  IF w.value # "none" THEN Fails(p)
                  ELSE [p EXCEPT !.low = Apply(@, [special |-> SpecialModes[w.name]])]
             [] w.name \in Names \ DOMAIN SpecialModes -> Match(p, Find[w.name], w)
             [] OTHER -> Fails(p)

Rejected(p) == p.failed \/ p.awaits # "none"

Parse(words) == FoldLeft(Step, Fresh, words)

-----------------------------------------------------------------------------
(***************************************************************************)
(* Low to high level arguments (flags/hiargs.rs).                          *)
(***************************************************************************)

Dirs       == {"d"}
Readable   == [f |-> <<"Foo">>]
Piped(e)   == IF e.stdin THEN <<"Foo">> ELSE <<>>
Bad        == [result |-> "error"]
Panics     == [result |-> "panic"]

ModeOf(low) ==
    CASE low.mode = "CountMatches" /\ low.invert_match -> "Count"
      [] low.mode = "Count" /\ low.only_matching       -> "CountMatches"
      [] OTHER                                         -> low.mode

\* A pattern that is there already is not added again.
Add(acc, texts) ==
    [acc EXCEPT !.patterns = @ \o SelectSeq(texts, LAMBDA t : t \notin ToSet(@))]

AddSourceForgetting(acc, source, e) ==
    CASE source[1] = "regexp"     -> Add(acc, <<source[2]>>)
      [] source = <<"file", "-">> -> Add(acc, Piped(e))
      [] source[1] = "file" /\ source[2] \in DOMAIN Readable -> Add(acc, Readable[source[2]])
      [] OTHER -> [acc EXCEPT !.bad = TRUE]

\* One -e or -f of Patterns::from_low_args.  Standard input is read once.
AddSource(acc, source, e) ==
    CASE source[1] = "regexp" -> Add(acc, <<source[2]>>)
      [] source = <<"file", "-">> ->
           IF acc.consumed THEN [acc EXCEPT !.bad = TRUE]
           ELSE [Add(acc, Piped(e)) EXCEPT !.consumed = TRUE]
      [] source[1] = "file" /\ source[2] \in DOMAIN Readable -> Add(acc, Readable[source[2]])
      [] OTHER -> [acc EXCEPT !.bad = TRUE]

\* Patterns::from_low_args: without -e and -f the first positional word is
\* the pattern of a search, and the others are paths.
PatternsOf(low, mode, e) ==
    LET none == [patterns |-> <<>>, consumed |-> FALSE, bad |-> FALSE,
                 paths |-> low.positional]
    IN  CASE mode \notin SearchModes -> none
          [] mode \in SearchModes /\ low.patterns # <<>> ->
               FoldLeft(LAMBDA acc, source : AddSource(acc, source, e), none, low.patterns)
          [] mode \in SearchModes /\ low.patterns = <<>> /\ low.positional # <<>> ->
               [none EXCEPT !.patterns = <<Head(low.positional)>>,
                            !.paths = Tail(low.positional)]
          [] OTHER -> [none EXCEPT !.bad = ~low.index_bench]

\* Paths::from_low_args.  The patterns and positional words are drained by
\* then: of the first alternative for "./" only --bench is left.
PathsOf(low, mode, found, e) ==
    LET given  == found.paths
        useCwd == low.index_bench \/ ~e.stdin \/ found.consumed \/ mode \notin SearchModes
    IN  [bad      |-> found.consumed /\ "-" \in ToSet(given),
         implicit |-> given = <<>>,
         paths    |-> IF given # <<>> THEN given ELSE IF useCwd THEN <<"./">> ELSE <<"-">>,
         oneFile  |-> IF given # <<>> THEN Len(given) = 1 /\ given[1] \notin Dirs ELSE ~useCwd]

BinaryDetection(low) ==
    LET none == low.binary = "AsText" \/ low.null_data
    IN  [explicit |-> IF none THEN "none" ELSE "convert",
         implicit |-> IF none THEN "none"
                      ELSE IF low.binary = "SearchAndSuppress" THEN "convert" ELSE "quit"]

HasStats(low, mode) == mode \in SearchModes /\ (low.stats \/ mode = "JSON")

\* The globs of -g take the case of --glob-case-insensitive, those of --iglob
\* have none.
GlobsOf(low) == [i \in 1 .. Len(low.globs) |-> <<low.globs[i], low.glob_case_insensitive>>]
                \o [i \in 1 .. Len(low.iglobs) |-> <<low.iglobs[i], TRUE>>]

QuitsWhenQuiet(low, mode) == low.quiet
QuitsAfterMatch(low, mode) == ~HasStats(low, mode) /\ low.quiet

ThreadsAsAsked(low, oneFile) ==
    IF oneFile THEN "1" ELSE IF low.threads # "unset" THEN low.threads ELSE "many"

ThreadsOf(low, oneFile) ==
    CASE low.sort # NoSort \/ oneFile -> "1"
      [] low.sort = NoSort /\ ~oneFile /\ low.threads # "unset" -> low.threads
      [] OTHER -> "many"

\* ContextModeLimited::get: -A and -B win over -C.
Lines(context) ==
    LET side(own) == CASE own # "unset" -> own
                       [] own = "unset" /\ context.both # "unset" -> context.both
                       [] OTHER -> "0"
    IN  [before |-> side(context.before), after |-> side(context.after)]

HeadingOf(low, e) == ~low.vimgrep /\ (low.heading = "yes" \/ (low.heading = "unset" /\ e.tty))

FileSeparator(low, mode, heading) ==
    CASE mode = "Standard" /\ heading -> ""
      [] mode = "Standard" /\ ~heading /\ ~low.context.passthru
            /\ Lines(low.context) # [before |-> "0", after |-> "0"] -> low.context_separator
      [] OTHER -> "disabled"

LineNumbers(low, mode, paths, e) ==
    \/ low.line_number = "yes"
    \/ /\ low.line_number = "unset"
       /\ ~low.quiet
       /\ \/ mode = "JSON"
          \/ /\ mode = "Standard"
             /\ (e.tty /\ paths # <<"-">>) \/ low.column = "yes" \/ low.vimgrep

MmapChoice(low, paths) ==
    CASE low.mmap = "AlwaysTryMmap" -> "auto"
      [] low.mmap = "Never" -> "never"
      [] OTHER -> IF ToSet(paths) \subseteq DOMAIN Readable THEN "auto" ELSE "never"

\* HiArgs::from_low_args.  What is taken over as it is stays in low.
HiArgs(low, e) ==
    LET mode  == ModeOf(low)
        found == PatternsOf(low, mode, e)
        paths == PathsOf(low, mode, found, e)
        heading == HeadingOf(low, e)
    IN  IF low.special # "unset" THEN Panics
        ELSE IF found.bad \/ paths.bad THEN Bad
        ELSE [result |-> "ok", low |-> low, mode |-> mode,
              patterns |-> found.patterns, paths |-> paths.paths,
              reads_stdin |-> found.consumed,
              has_implicit_path |-> paths.implicit, is_one_file |-> paths.oneFile,
              binary |-> BinaryDetection(low), stats |-> HasStats(low, mode),
              globs |-> GlobsOf(low),
              color |-> IF low.color = "auto" /\ ~e.tty THEN "never" ELSE low.color,
              column |-> low.column = "yes" \/ (low.column = "unset" /\ low.vimgrep),
              heading |-> heading,
              path_terminator |-> IF low.null THEN "NUL" ELSE "unset",
              quit_after_match |-> QuitsAfterMatch(low, mode),
              threads |-> ThreadsOf(low, paths.oneFile),
              with_filename |-> \/ low.with_filename = "yes"
                                \/ /\ low.with_filename = "unset"
                                   /\ low.vimgrep \/ ~paths.oneFile,
              file_separator |-> FileSeparator(low, mode, heading),
              line_number |-> LineNumbers(low, mode, paths.paths, e),
              mmap_choice |-> MmapChoice(low, paths.paths)]

-----------------------------------------------------------------------------
(***************************************************************************)
(* What the high level arguments ask of the libraries.                     *)
(***************************************************************************)

\* HiArgs::configure_walk_builder: which files a walk yields.
Filters(h) ==
    LET l == h.low
    IN  [ignores          |-> IF l.no_ignore_files THEN <<>> ELSE l.ignore_file,
         max_depth        |-> l.max_depth,
         follow_links     |-> l.follow,
         max_filesize     |-> l.max_filesize,
         same_file_system |-> l.one_file_system,
         overrides        |-> h.globs,
         types            |-> l.type_changes,
         hidden           |-> ~l.hidden,
         parents          |-> ~l.no_ignore_parent,
         ignore           |-> ~l.no_ignore_dot,
         git_global       |-> ~l.no_ignore_vcs /\ ~l.no_ignore_global,
         git_ignore       |-> ~l.no_ignore_vcs,
         git_exclude      |-> ~l.no_ignore_vcs /\ ~l.no_ignore_exclude,
         require_git      |-> ~l.no_require_git,
         ignore_case_insensitive |-> l.ignore_file_case_insensitive,
         sort_by_file_name |-> l.sort = [kind |-> "path", reverse |-> FALSE]]

\* configure_walk_builder asserts that a sorted walk has one thread.
WalkPanics(h) == h.low.sort # NoSort /\ h.threads # "1"

FingerprintWithoutGit(h) ==
    LET l == h.low
    IN  <<l.follow, h.globs, l.hidden, l.ignore_file_case_insensitive, l.ignore_file,
          l.max_depth, l.max_filesize, l.no_ignore_dot, l.no_ignore_exclude,
          l.no_ignore_files, l.no_ignore_global, l.no_ignore_parent, l.no_ignore_vcs,
          l.one_file_system, l.sort, l.type_changes>>

\* HiArgs::compute_index_walk_fingerprint; the hash is taken as injective.
Fingerprint(h) ==
    LET l == h.low
    IN  <<l.follow, h.globs, l.hidden, l.ignore_file_case_insensitive, l.ignore_file,
          l.max_depth, l.max_filesize, l.no_ignore_dot, l.no_ignore_exclude,
          l.no_ignore_files, l.no_ignore_global, l.no_ignore_parent, l.no_ignore_vcs,
          l.no_require_git, l.one_file_system, l.sort, l.type_changes>>

\* HiArgs::matcher_rust and the line terminator of HiArgs::searcher.
Matcher(h) ==
    LET l == h.low
    IN  [case       |-> l.case,
         fixed      |-> l.fixed_strings,
         unicode    |-> ~l.no_unicode,
         boundary   |-> l.boundary,
         dotall     |-> l.multiline /\ l.multiline_dotall,
         crlf       |-> l.crlf,
         terminator |-> IF l.null_data /\ ~l.crlf THEN "NUL" ELSE "newline"]

\* HiArgs::indexed_pattern: what the plan of the index is made from.
IndexedPattern(h) ==
    LET l == h.low
    IN  [case       |-> l.case,
         fixed      |-> l.fixed_strings,
         unicode    |-> ~l.no_unicode,
         boundary   |-> l.boundary,
         dotall     |-> l.multiline /\ l.multiline_dotall,
         crlf       |-> l.crlf,
         terminator |-> "newline"]

MatchesPossible(h) == ~(h.patterns = <<>> /\ ~h.low.invert_match) /\ h.low.max_count # "0"

\* HiArgs::printer.
Printer(h) ==
    CASE h.low.quiet /\ h.mode = "FilesWithoutMatch" -> "QuietWithoutMatch"
      [] h.low.quiet /\ h.mode # "FilesWithoutMatch" -> "QuietWithMatch"
      [] OTHER -> h.mode

SearchesStdin(h) == "-" \in ToSet(h.paths)

UnsupportedButNul(h) ==
    LET l == h.low
    IN  \/ l.invert_match
        \/ l.context.passthru
        \/ l.engine # "default"
        \/ l.encoding \notin {"auto", "none"}
        \/ l.pre # "unset"
        \/ l.search_zip
        \/ l.binary # "Auto"

\* unsupported_reason of index/request.rs.
Unsupported(h) ==
    LET l == h.low
    IN  \/ l.invert_match
        \/ l.context.passthru
        \/ l.engine # "default"
        \/ l.encoding \notin {"auto", "none"}
        \/ l.pre # "unset"
        \/ l.search_zip
        \/ l.null_data
        \/ l.binary # "Auto"

\* SearchRequest::from_args, and scan_unsupported when it refuses.
Request(h) ==
    CASE h.mode \notin SearchModes \/ ~h.low.index_use -> "error"
      [] h.mode \in SearchModes /\ h.low.index_use
            /\ (Unsupported(h) \/ SearchesStdin(h)) -> IF h.low.index_bench THEN "error" ELSE "scan"
      [] OTHER -> IF MatchesPossible(h) THEN "indexed" ELSE "nothing"

\* run of main.rs and IndexSearch::run: what is done with the arguments.
Dispatch(h) ==
    CASE h.low.index_bench /\ h.mode \in SearchModes /\ h.patterns = <<>> -> "suite"
      [] (h.low.index_bench /\ ~(h.mode \in SearchModes /\ h.patterns = <<>>))
            \/ (h.mode \in SearchModes /\ h.low.index_use /\ ~h.low.index_bench) -> Request(h)
      [] ~h.low.index_bench /\ h.mode \in SearchModes /\ ~h.low.index_use ->
            IF MatchesPossible(h) THEN "scan" ELSE "nothing"
      [] ~h.low.index_bench /\ h.mode = "Files" -> "files"
      [] ~h.low.index_bench /\ h.mode = "Types" -> "types"
      [] OTHER -> "generate"

Walks == {"suite", "indexed", "scan", "files"}

-----------------------------------------------------------------------------
(***************************************************************************)
(* One process.                                                            *)
(***************************************************************************)

Init ==
    /\ theme \in Themes
    /\ env \in [stdin : BOOLEAN, tty : BOOLEAN]
    /\ rc \in {<<>>} \cup {<<w>> : w \in theme}
    /\ RcHelps \/ \A w \in ToSet(rc) :
           w.name \notin DOMAIN SpecialModes \cup PCRE2Version.names
    /\ line = <<>> /\ parser = Fresh /\ stage = "cli" /\ hi = Bad /\ outcome = "none"

\* One more word, and one more turn of the parser.
Word(w) ==
    /\ stage = "cli"
    /\ Len(rc) + Len(line) < MaxWords[theme]
    /\ line' = Append(line, w)
    /\ parser' = Step(parser, w)
    /\ UNCHANGED <<theme, env, rc, stage, hi, outcome>>

Ends(what) == stage' = "done" /\ outcome' = what

BadArguments ==
    /\ stage = "cli" /\ Rejected(parser)
    /\ Ends("error")
    /\ UNCHANGED <<theme, env, rc, line, parser, hi>>

\* A special mode of the command line needs neither configuration nor state.
ShortCircuit ==
    /\ stage = "cli" /\ ~Rejected(parser)
    /\ parser.low.special # "unset"
    /\ Ends("special")
    /\ UNCHANGED <<theme, env, rc, line, parser, hi>>

SkipConfig ==
    /\ stage = "cli" /\ ~Rejected(parser)
    /\ parser.low.special = "unset"
    /\ parser.low.no_config \/ rc = <<>>
    /\ stage' = "low"
    /\ UNCHANGED <<theme, env, rc, line, parser, hi, outcome>>

\* The second parse: the words of the file come before those of the line.
ReadConfig ==
    /\ stage = "cli" /\ ~Rejected(parser)
    /\ parser.low.special = "unset"
    /\ ~parser.low.no_config /\ rc # <<>>
    /\ parser' = Parse(rc \o line)
    /\ IF Rejected(parser') THEN Ends("error") ELSE stage' = "low" /\ UNCHANGED outcome
    /\ UNCHANGED <<theme, env, rc, line, hi>>

Convert ==
    /\ stage = "low"
    /\ hi' = HiArgs(parser.low, env)
    /\ IF hi'.result = "ok" THEN stage' = "hi" /\ UNCHANGED outcome ELSE Ends(hi'.result)
    /\ UNCHANGED <<theme, env, rc, line, parser>>

Run ==
    /\ stage = "hi"
    /\ LET what == Dispatch(hi)
       IN  Ends(IF what \in Walks /\ WalkPanics(hi) THEN "panic" ELSE what)
    /\ UNCHANGED <<theme, env, rc, line, parser, hi>>

Next ==
    \/ \E w \in theme : Word(w)
    \/ BadArguments
    \/ ShortCircuit
    \/ SkipConfig
    \/ ReadConfig
    \/ Convert
    \/ Run

Spec == Init /\ [][Next]_vars

-----------------------------------------------------------------------------
(***************************************************************************)
(* Properties.                                                             *)
(***************************************************************************)

\* The low level arguments keep their fields and modes, and the process is at
\* one of its stages.
TypeOK ==
    /\ theme \in Themes /\ ToSet(rc) \cup ToSet(line) \subseteq theme
    /\ DOMAIN parser.low = DOMAIN LowArgs
    /\ parser.low.mode \in Modes /\ parser.low.unrestricted \in 0 .. 3
    /\ parser.awaits \in DOMAIN FLAGS \cup {"none"} /\ parser.failed \in BOOLEAN
    /\ stage \in {"cli", "low", "hi", "done"} /\ hi.result \in {"ok", "error", "panic"}
    /\ outcome \in {"none", "error", "panic", "special", "suite", "indexed", "scan",
                    "nothing", "files", "types", "generate"}

IsFlag(w) == w.name \in Names \ DOMAIN SpecialModes

\* The flags a word overrides by the documentation of its own; --pre '' is as
\* if it was not given.
OverriddenBy(w) ==
    IF IsFlag(w) /\ w.value # "" /\ w.name \notin FLAGS[Find[w.name]].negated
    THEN FLAGS[Find[w.name]].over ELSE {}

Overridden(words, i) ==
    /\ IsFlag(words[i])
    /\ \E j \in i + 1 .. Len(words) : Find[words[i].name] \in OverriddenBy(words[j])

\* The words that no later one overrides.
Survivors(words) ==
    LET upTo[n \in 0 .. Len(words)] ==
            IF n = 0 THEN <<>>
            ELSE IF Overridden(words, n) THEN upTo[n - 1]
            ELSE Append(upTo[n - 1], words[n])
    IN  upTo[Len(words)]

ValuesAttached(words) ==
    \A w \in ToSet(words) :
        IsFlag(w) /\ "on" \notin DOMAIN FLAGS[Find[w.name]].update
            /\ w.name \notin FLAGS[Find[w.name]].negated => w.value # "none"

\* A flag that a later one overrides, as documented, is as if it had never
\* been given: it leaves nothing behind in any field.
OverriddenFlagsLeaveNoTrace ==
    stage = "cli" /\ ~Rejected(parser) /\ ValuesAttached(line)
        => Parse(Survivors(line)).low = parser.low

WalkArgs(low) == [low |-> low, globs |-> GlobsOf(low)]

\* One more word never changes which files a walk yields and leaves the
\* fingerprint alone that decides whether an index may answer.
FingerprintCoversWalk ==
    [][Filters(WalkArgs(parser.low)) # Filters(WalkArgs(parser.low'))
         => Fingerprint(WalkArgs(parser.low)) # Fingerprint(WalkArgs(parser.low'))]_vars

\* What goes to the index means the same to the plan, made from an inline
\* pattern, and to the matcher that verifies, and lines without a match, decoded
\* text and binary files play no part in it.
IndexedMeansPlannable ==
    outcome = "indexed" =>
        /\ IndexedPattern(hi) = Matcher(hi)
        /\ hi.patterns # <<>> /\ ~hi.low.invert_match /\ ~hi.low.context.passthru
        /\ hi.low.pre = "unset" /\ ~hi.low.search_zip /\ hi.low.encoding # "utf-16"
        /\ hi.binary = [explicit |-> "convert", implicit |-> "quit"]
        /\ ~SearchesStdin(hi)

ChildEnvPiped == [stdin |-> TRUE, tty |-> FALSE]

\* The daemon starts the rebuild child without standard input and terminal.
ChildEnv == [stdin |-> FALSE, tty |-> FALSE]

\* The rebuild child, given the words of the query, builds an index that this
\* query may use: same filters, same roots, same place and backend.
RebuildAgrees ==
    outcome = "indexed" =>
        LET child == HiArgs(parser.low, ChildEnv)
        IN  /\ child.result = "ok"
            /\ Fingerprint(child) = Fingerprint(hi)
            /\ child.paths = hi.paths
            /\ Dispatch(child) \in {"indexed", "nothing", "suite"}

\* Standard input is read for patterns once, or searched, and never both.
StdinReadOnce ==
    hi.result = "ok" =>
        /\ Cardinality({i \in DOMAIN hi.low.patterns :
                            hi.low.patterns[i] = <<"file", "-">>}) > 1
             => hi.mode \notin SearchModes
        /\ outcome \in Walks /\ <<"file", "-">> \in ToSet(hi.low.patterns)
             => ~SearchesStdin(hi) \/ hi.mode \notin SearchModes

\* A search that stops at the first match prints nothing that a longer one
\* would have printed differently, neither lines nor statistics.
EarlyStopIsInvisible ==
    outcome \in {"scan", "indexed"} /\ hi.quit_after_match =>
        Printer(hi) \in {"QuietWithMatch", "QuietWithoutMatch"} /\ ~hi.stats

\* No assertion of the conversion or of the walk fails: special modes never
\* reach from_low_args, and what is sorted has one thread.
AssertionsHold == outcome # "panic"

\* "Once we're in a non-search mode [...] search modes cannot [override]"
\* (lowargs.rs, Mode::update).
NonSearchModeStays ==
    [][stage = "cli" /\ stage' = "cli" /\ parser.low.mode \notin SearchModes
         => parser'.low.mode \notin SearchModes]_vars
=============================================================================
