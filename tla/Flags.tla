--------------------------------- MODULE Flags ---------------------------------
(***************************************************************************)
(* The flags of eg (flags/defs.rs) and the low level arguments they update *)
(* (flags/lowargs.rs).  A flag is the record of                            *)
(*   - names    long name, short name and aliases,                         *)
(*   - negated  the name that switches it off,                             *)
(*   - over     the flags its documentation says it overrides,             *)
(*   - update   what each value does to the low level arguments: "on" for  *)
(*              a switch, "off" for its negation, the text for a value.    *)
(* A value outside the domain of update is an error.  An update is the     *)
(* record of the fields it sets: see Join for the fields that remember.    *)
(* Texts abstracts free-form values; "" and "-" are themselves, "--x" is a *)
(* word that looks like a flag.                                            *)
(***************************************************************************)
EXTENDS Naturals, Sequences

Texts   == {"", "-", "--x", "d", "f", "Foo", "*.c"}
Numbers == {"0", "1", "2"}
Sizes   == Numbers

-----------------------------------------------------------------------------
(***************************************************************************)
(* Shapes of flags.                                                        *)
(***************************************************************************)

Only(field, value) == [f \in {field} |-> value]

Flag(names, negated, over, update) ==
    [names |-> names, negated |-> negated, over |-> over, update |-> update]

Switch(names, over, on)            == Flag(names, {}, over, [on |-> on])
Toggle(names, no, over, on, off)   == Flag(names, {no}, over, [on |-> on, off |-> off])
Bool(names, no, field)             == Toggle(names, no, {}, Only(field, TRUE), Only(field, FALSE))
Valued(names, over, update)        == Flag(names, {}, over, update)
Retractable(names, no, over, update, off) ==
    Flag(names, {no}, over, [v \in DOMAIN update \cup {"off"} |->
                                IF v = "off" THEN off ELSE update[v]])

Sets(field, values)   == [v \in values |-> Only(field, v)]
Pushes(field, values) == [v \in values |-> Only(field, <<v>>)]
SetsUnless(field, values, empty) ==
    [v \in values |-> Only(field, IF v = empty THEN "unset" ELSE v)]

-----------------------------------------------------------------------------
(***************************************************************************)
(* Low level arguments.                                                    *)
(***************************************************************************)

SearchModes == {"Standard", "FilesWithMatches", "FilesWithoutMatch", "Count",
                "CountMatches", "JSON"}
GenerateModes == {"man", "complete-bash", "complete-zsh", "complete-fish",
                  "complete-powershell"}
Modes == SearchModes \cup {"Files", "Types"} \cup GenerateModes

NoContext == [passthru |-> FALSE, before |-> "unset", after |-> "unset", both |-> "unset"]

NoSort == [kind |-> "unset", reverse |-> FALSE]

LowArgs == [
    special |-> "unset", mode |-> "Standard", positional |-> <<>>, patterns |-> <<>>,
    index_use |-> TRUE, index_backend |-> "postings", index_dir |-> "unset",
    index_bench |-> FALSE, index_explicit |-> FALSE,
    binary |-> "Auto", boundary |-> "unset", buffer |-> "Auto", byte_offset |-> FALSE,
    case |-> "Sensitive", color |-> "auto", colors |-> <<>>, column |-> "unset",
    context |-> NoContext, context_separator |-> "--", crlf |-> FALSE,
    dfa_size_limit |-> "unset", encoding |-> "auto", engine |-> "default",
    field_context_separator |-> "-", field_match_separator |-> ":",
    fixed_strings |-> FALSE, follow |-> FALSE, glob_case_insensitive |-> FALSE,
    globs |-> <<>>, heading |-> "unset", hidden |-> FALSE, hostname_bin |-> "unset",
    hyperlink_format |-> "none", iglobs |-> <<>>, ignore_file |-> <<>>,
    ignore_file_case_insensitive |-> FALSE, include_zero |-> FALSE,
    invert_match |-> FALSE, line_number |-> "unset", logging |-> "unset",
    max_columns |-> "unset", max_columns_preview |-> FALSE, max_count |-> "unset",
    max_depth |-> "unset", max_filesize |-> "unset", mmap |-> "Auto",
    multiline |-> FALSE, multiline_dotall |-> FALSE, no_config |-> FALSE,
    no_ignore_dot |-> FALSE, no_ignore_exclude |-> FALSE, no_ignore_files |-> FALSE,
    no_ignore_global |-> FALSE, no_ignore_messages |-> FALSE,
    no_ignore_parent |-> FALSE, no_ignore_vcs |-> FALSE, no_messages |-> FALSE,
    no_require_git |-> FALSE, no_unicode |-> FALSE, null |-> FALSE,
    null_data |-> FALSE, one_file_system |-> FALSE, only_matching |-> FALSE,
    path_separator |-> "unset", pre |-> "unset", pre_glob |-> <<>>, quiet |-> FALSE,
    regex_size_limit |-> "unset", replace |-> "unset", search_zip |-> FALSE,
    sort |-> NoSort, stats |-> FALSE, stop_on_nonmatch |-> FALSE,
    threads |-> "unset", trim |-> FALSE, type_changes |-> <<>>, unrestricted |-> 0,
    vimgrep |-> FALSE, with_filename |-> "unset"]

Lists == {"positional", "patterns", "colors", "globs", "iglobs", "ignore_file",
          "pre_glob", "type_changes"}

\* Mode::update.  The inner test asks for the old mode once more, not for the
\* new one: nothing is ever held back.  --no-json only takes JSON back.
UpdateMode(old, new) ==
    CASE new = "no-json"                      -> IF old = "JSON" THEN "Standard" ELSE old
      [] new # "no-json" /\ old \in SearchModes    -> new
      [] new # "no-json" /\ old \notin SearchModes -> IF old \in SearchModes THEN old ELSE new

\* ContextMode::set_before, set_after, set_both and --passthru.
UpdateContext(old, set) ==
    LET rest == IF "passthru" \in DOMAIN set \/ old.passthru THEN NoContext ELSE old
    IN  [f \in DOMAIN rest |-> IF f \in DOMAIN set THEN set[f] ELSE rest[f]]

\* A field that is set: the lists grow, the modes decide for themselves.
Join(field, old, new) ==
    CASE field \in Lists     -> old \o new
      [] field = "mode"      -> UpdateMode(old, new)
      [] field = "context"   -> UpdateContext(old, new)
      [] OTHER               -> new

Apply(low, update) ==
    [f \in DOMAIN low |-> IF f \in DOMAIN update THEN Join(f, low[f], update[f]) ELSE low[f]]

-----------------------------------------------------------------------------
(***************************************************************************)
(* The flags: what is searched for.                                        *)
(***************************************************************************)

Regexp == Valued({"regexp", "e"}, {}, [v \in Texts |-> [patterns |-> <<<<"regexp", v>>>>]])
File   == Valued({"file", "f"}, {}, [v \in Texts |-> [patterns |-> <<<<"file", v>>>>]])

FixedStrings    == Bool({"fixed-strings", "F"}, "no-fixed-strings", "fixed_strings")
InvertMatch     == Bool({"invert-match", "v"}, "no-invert-match", "invert_match")
MultilineDotall == Bool({"multiline-dotall"}, "no-multiline-dotall", "multiline_dotall")
NoUnicode       == Bool({"no-unicode"}, "unicode", "no_unicode")
NoPcre2Unicode  == Bool({"no-pcre2-unicode"}, "pcre2-unicode", "no_unicode")
SearchZip == Toggle({"search-zip", "z"}, "no-search-zip", {"Pre"},
                    [search_zip |-> TRUE, pre |-> "unset"], [search_zip |-> FALSE])
Text      == Toggle({"text", "a"}, "no-text", {"Binary"},
                    [binary |-> "AsText"], [binary |-> "Auto"])
Binary    == Toggle({"binary"}, "no-binary", {"Text"},
                    [binary |-> "SearchAndSuppress"], [binary |-> "Auto"])
CrlfBesideNullData == Toggle({"crlf"}, "no-crlf", {"NullData"},
                             [crlf |-> TRUE], [crlf |-> FALSE])
Crlf      == Toggle({"crlf"}, "no-crlf", {"NullData"},
                    [crlf |-> TRUE, null_data |-> FALSE], [crlf |-> FALSE])
NullData  == Switch({"null-data"}, {"Crlf"}, [crlf |-> FALSE, null_data |-> TRUE])
Multiline == Toggle({"multiline", "U"}, "no-multiline", {"StopOnNonmatch"},
                    [multiline |-> TRUE, stop_on_nonmatch |-> FALSE],
                    [multiline |-> FALSE])
StopOnNonmatch == Switch({"stop-on-nonmatch"}, {"Multiline"},
                         [stop_on_nonmatch |-> TRUE, multiline |-> FALSE])
CaseSensitive == Switch({"case-sensitive", "s"}, {"IgnoreCase", "SmartCase"},
                        [case |-> "Sensitive"])
IgnoreCase    == Switch({"ignore-case", "i"}, {"CaseSensitive", "SmartCase"},
                        [case |-> "Insensitive"])
SmartCase     == Switch({"smart-case", "S"}, {"CaseSensitive", "IgnoreCase"},
                        [case |-> "Smart"])
LineRegexp == Switch({"line-regexp", "x"}, {"WordRegexp"}, [boundary |-> "Line"])
WordRegexp == Switch({"word-regexp", "w"}, {"LineRegexp"}, [boundary |-> "Word"])
Engine == Valued({"engine"}, {"PCRE2", "AutoHybridRegex"},
                 Sets("engine", {"default", "pcre2", "auto"}))
PCRE2  == Toggle({"pcre2", "P"}, "no-pcre2", {"Engine"},
                 [engine |-> "pcre2"], [engine |-> "default"])
AutoHybridRegex == Toggle({"auto-hybrid-regex"}, "no-auto-hybrid-regex", {},
                          [engine |-> "auto"], [engine |-> "default"])
Encoding == Retractable({"encoding", "E"}, "no-encoding", {},
                        Sets("encoding", {"auto", "none", "utf-16"}),
                        [encoding |-> "auto"])
DfaSizeLimit   == Valued({"dfa-size-limit"}, {}, Sets("dfa_size_limit", Sizes))
RegexSizeLimit == Valued({"regex-size-limit"}, {}, Sets("regex_size_limit", Sizes))
MaxCount == Valued({"max-count", "m"}, {}, Sets("max_count", Numbers))
Mmap     == Toggle({"mmap"}, "no-mmap", {}, [mmap |-> "AlwaysTryMmap"], [mmap |-> "Never"])
Threads  == Valued({"threads", "j"}, {}, SetsUnless("threads", Numbers, "0"))
Pre == Retractable({"pre"}, "no-pre", {"SearchZip"},
                   [v \in Texts |-> IF v = "" THEN [pre |-> "unset"]
                                    ELSE [search_zip |-> FALSE, pre |-> v]],
                   [pre |-> "unset"])
PreGlob == Valued({"pre-glob"}, {}, Pushes("pre_glob", Texts))

-----------------------------------------------------------------------------
(***************************************************************************)
(* Which files are walked.                                                 *)
(***************************************************************************)

Follow   == Bool({"follow", "L"}, "no-follow", "follow")
Hidden   == Bool({"hidden", "."}, "no-hidden", "hidden")
Glob     == Valued({"glob", "g"}, {}, Pushes("globs", Texts))
IGlob    == Valued({"iglob"}, {}, Pushes("iglobs", Texts))
GlobCaseInsensitive ==
    Bool({"glob-case-insensitive"}, "no-glob-case-insensitive", "glob_case_insensitive")
IgnoreFile == Valued({"ignore-file"}, {}, Pushes("ignore_file", Texts))
IgnoreFileCaseInsensitive ==
    Bool({"ignore-file-case-insensitive"}, "no-ignore-file-case-insensitive",
         "ignore_file_case_insensitive")
MaxDepth    == Valued({"max-depth", "d", "maxdepth"}, {}, Sets("max_depth", Numbers))
MaxFilesize == Valued({"max-filesize"}, {}, Sets("max_filesize", Sizes))

NoIgnoreAll(yes) == [no_ignore_dot |-> yes, no_ignore_exclude |-> yes,
                     no_ignore_global |-> yes, no_ignore_parent |-> yes,
                     no_ignore_vcs |-> yes]
NoIgnore == Toggle({"no-ignore"}, "ignore", {}, NoIgnoreAll(TRUE), NoIgnoreAll(FALSE))
NoIgnoreDot     == Bool({"no-ignore-dot"}, "ignore-dot", "no_ignore_dot")
NoIgnoreExclude == Bool({"no-ignore-exclude"}, "ignore-exclude", "no_ignore_exclude")
NoIgnoreFiles   == Bool({"no-ignore-files"}, "ignore-files", "no_ignore_files")
NoIgnoreGlobal  == Bool({"no-ignore-global"}, "ignore-global", "no_ignore_global")
NoIgnoreParent  == Bool({"no-ignore-parent"}, "ignore-parent", "no_ignore_parent")
NoIgnoreVcs     == Bool({"no-ignore-vcs"}, "ignore-vcs", "no_ignore_vcs")
NoRequireGit    == Bool({"no-require-git"}, "require-git", "no_require_git")
OneFileSystem   == Bool({"one-file-system"}, "no-one-file-system", "one_file_system")

TypeChange(kind) == [v \in Texts |-> [type_changes |-> <<<<kind, v>>>>]]
Type      == Valued({"type", "t"}, {}, TypeChange("Select"))
TypeNot   == Valued({"type-not", "T"}, {}, TypeChange("Negate"))
TypeAdd   == Valued({"type-add"}, {}, TypeChange("Add"))
TypeClear == Valued({"type-clear"}, {}, TypeChange("Clear"))

\* -u, -uu, -uuu: each adds to the one before.  Levels[n] is what the n-th does.
Levels == <<NoIgnore.update["on"], Hidden.update["on"], Binary.update["on"]>>
Unrestricted == Switch({"unrestricted", "u"}, {}, [unrestricted |-> 1])

Sort  == Valued({"sort"}, {"Sortr"},
                [v \in {"none", "path", "modified", "accessed", "created"} |->
                    [sort |-> IF v = "none" THEN NoSort ELSE [kind |-> v, reverse |-> FALSE]]])
Sortr == Valued({"sortr"}, {"Sort"},
                [v \in {"none", "path", "modified", "accessed", "created"} |->
                    [sort |-> IF v = "none" THEN NoSort ELSE [kind |-> v, reverse |-> TRUE]]])
SortFiles == Toggle({"sort-files"}, "no-sort-files", {"Sort", "Sortr"},
                    [sort |-> [kind |-> "path", reverse |-> FALSE]], [sort |-> NoSort])

-----------------------------------------------------------------------------
(***************************************************************************)
(* What is printed.                                                        *)
(***************************************************************************)

Mode(mode)  == [mode |-> mode]
Count       == Switch({"count", "c"}, {"CountMatches"}, Mode("Count"))
CountMatches == Switch({"count-matches"}, {"Count"}, Mode("CountMatches"))
FilesWithMatches ==
    Switch({"files-with-matches", "l"}, {"FilesWithoutMatch"}, Mode("FilesWithMatches"))
FilesWithoutMatch ==
    Switch({"files-without-match"}, {"FilesWithMatches"}, Mode("FilesWithoutMatch"))
JSON     == Toggle({"json"}, "no-json", {}, Mode("JSON"), Mode("no-json"))
Files    == Switch({"files"}, {"TypeList"}, Mode("Files"))
TypeList == Switch({"type-list"}, {}, Mode("Types"))
Generate == Valued({"generate"}, {}, Sets("mode", GenerateModes))

Context       == Valued({"context", "C"}, {"Passthru"},
                        [v \in Numbers |-> [context |-> [both |-> v]]])
AfterContext  == Valued({"after-context", "A"}, {"Passthru"},
                        [v \in Numbers |-> [context |-> [after |-> v]]])
BeforeContext == Valued({"before-context", "B"}, {"Passthru"},
                        [v \in Numbers |-> [context |-> [before |-> v]]])
Passthru      == Switch({"passthru", "passthrough"},
                        {"Context", "AfterContext", "BeforeContext"},
                        [context |-> [passthru |-> TRUE]])

ByteOffset  == Bool({"byte-offset", "b"}, "no-byte-offset", "byte_offset")
Column      == Toggle({"column"}, "no-column", {}, [column |-> "yes"], [column |-> "no"])
Heading     == Toggle({"heading"}, "no-heading", {}, [heading |-> "yes"], [heading |-> "no"])
LineNumber   == Switch({"line-number", "n"}, {}, [line_number |-> "yes"])
LineNumberNo == Switch({"no-line-number", "N"}, {}, [line_number |-> "no"])
WithFilename == Switch({"with-filename", "H"}, {"WithFilenameNo"}, [with_filename |-> "yes"])
WithFilenameNo == Switch({"no-filename", "I"}, {"WithFilename"}, [with_filename |-> "no"])
Pretty == Switch({"pretty", "p"}, {},
                 [color |-> "always", heading |-> "yes", line_number |-> "yes"])
Color  == Valued({"color"}, {}, Sets("color", {"never", "auto", "always", "ansi"}))
Colors == Valued({"colors"}, {}, Pushes("colors", {"path:none"}))
BlockBuffered == Toggle({"block-buffered"}, "no-block-buffered", {"LineBuffered"},
                        [buffer |-> "Block"], [buffer |-> "Auto"])
LineBuffered  == Toggle({"line-buffered"}, "no-line-buffered", {"BlockBuffered"},
                        [buffer |-> "Line"], [buffer |-> "Auto"])
ContextSeparator == Retractable({"context-separator"}, "no-context-separator", {},
                                Sets("context_separator", Texts),
                                [context_separator |-> "disabled"])
FieldContextSeparator ==
    Valued({"field-context-separator"}, {}, Sets("field_context_separator", Texts))
FieldMatchSeparator ==
    Valued({"field-match-separator"}, {}, Sets("field_match_separator", Texts))
\* One byte, or nothing.
PathSeparator == Valued({"path-separator"}, {},
                        SetsUnless("path_separator", {"", "-", "d", "f"}, ""))
HostnameBin   == Valued({"hostname-bin"}, {}, SetsUnless("hostname_bin", Texts, ""))
HyperlinkFormat == Valued({"hyperlink-format"}, {},
                          Sets("hyperlink_format", {"none", "default", "file"}))
IncludeZero   == Bool({"include-zero"}, "no-include-zero", "include_zero")
MaxColumns    == Valued({"max-columns", "M"}, {}, SetsUnless("max_columns", Numbers, "0"))
MaxColumnsPreview ==
    Bool({"max-columns-preview"}, "no-max-columns-preview", "max_columns_preview")
Null         == Switch({"null", "0"}, {}, [null |-> TRUE])
OnlyMatching == Switch({"only-matching", "o"}, {}, [only_matching |-> TRUE])
Quiet        == Switch({"quiet", "q"}, {}, [quiet |-> TRUE])
Replace      == Valued({"replace", "r"}, {}, Sets("replace", Texts))
Stats        == Bool({"stats"}, "no-stats", "stats")
Trim         == Bool({"trim"}, "no-trim", "trim")
Vimgrep      == Switch({"vimgrep"}, {}, [vimgrep |-> TRUE])

-----------------------------------------------------------------------------
(***************************************************************************)
(* The index, logging and the rest.                                        *)
(***************************************************************************)

\* IndexConfig::set_mode, set_backend, set_dir, enable_bench and disable.
Index   == Valued({"index"}, {},
                  [v \in {"auto"} |-> [index_use |-> TRUE, index_explicit |-> TRUE]])
IndexBackendFlag == Valued({"index-backend"}, {},
                  [v \in {"postings", "tantivy"} |->
                     [index_backend |-> v, index_use |-> TRUE, index_explicit |-> TRUE]])
IndexDir == Valued({"index-dir"}, {},
                  [v \in Texts |->
                     [index_dir |-> v, index_use |-> TRUE, index_explicit |-> TRUE]])
Bench    == Switch({"bench"}, {}, [index_bench |-> TRUE, index_use |-> TRUE])
NoIndex  == Switch({"no-index"}, {}, [index_use |-> FALSE])

Debug   == Switch({"debug"}, {}, [logging |-> "Debug"])
Trace   == Switch({"trace"}, {}, [logging |-> "Trace"])
NoMessages == Bool({"no-messages"}, "messages", "no_messages")
NoIgnoreMessages ==
    Bool({"no-ignore-messages"}, "ignore-messages", "no_ignore_messages")
NoConfig == Switch({"no-config"}, {}, [no_config |-> TRUE])
\* -h and -V are told apart from --help and --version by the parser.
Help    == Switch({"help", "h"}, {}, <<>>)
Version == Switch({"version", "V"}, {}, <<>>)
PCRE2Version == Switch({"pcre2-version"}, {}, [special |-> "VersionPCRE2"])

FLAGS == [
    AfterContext |-> AfterContext, AutoHybridRegex |-> AutoHybridRegex,
    BeforeContext |-> BeforeContext, Binary |-> Binary,
    BlockBuffered |-> BlockBuffered, ByteOffset |-> ByteOffset,
    CaseSensitive |-> CaseSensitive, Color |-> Color, Colors |-> Colors,
    Column |-> Column, Context |-> Context,
    ContextSeparator |-> ContextSeparator, Count |-> Count,
    CountMatches |-> CountMatches, Crlf |-> Crlf, Debug |-> Debug,
    DfaSizeLimit |-> DfaSizeLimit, Encoding |-> Encoding, Engine |-> Engine,
    FieldContextSeparator |-> FieldContextSeparator,
    FieldMatchSeparator |-> FieldMatchSeparator, File |-> File,
    Files |-> Files, FilesWithMatches |-> FilesWithMatches,
    FilesWithoutMatch |-> FilesWithoutMatch, FixedStrings |-> FixedStrings,
    Follow |-> Follow, Generate |-> Generate, Glob |-> Glob,
    GlobCaseInsensitive |-> GlobCaseInsensitive, Heading |-> Heading,
    Help |-> Help, Hidden |-> Hidden, HostnameBin |-> HostnameBin,
    HyperlinkFormat |-> HyperlinkFormat, IGlob |-> IGlob,
    IgnoreCase |-> IgnoreCase, IgnoreFile |-> IgnoreFile,
    IgnoreFileCaseInsensitive |-> IgnoreFileCaseInsensitive,
    IncludeZero |-> IncludeZero, Bench |-> Bench, Index |-> Index,
    IndexDir |-> IndexDir, IndexBackendFlag |-> IndexBackendFlag,
    InvertMatch |-> InvertMatch, JSON |-> JSON, LineBuffered |-> LineBuffered,
    LineNumber |-> LineNumber, LineNumberNo |-> LineNumberNo,
    LineRegexp |-> LineRegexp, MaxColumns |-> MaxColumns,
    MaxColumnsPreview |-> MaxColumnsPreview, MaxCount |-> MaxCount,
    MaxDepth |-> MaxDepth, MaxFilesize |-> MaxFilesize, Mmap |-> Mmap,
    Multiline |-> Multiline, MultilineDotall |-> MultilineDotall,
    NoConfig |-> NoConfig, NoIgnore |-> NoIgnore, NoIgnoreDot |-> NoIgnoreDot,
    NoIgnoreExclude |-> NoIgnoreExclude, NoIgnoreFiles |-> NoIgnoreFiles,
    NoIgnoreGlobal |-> NoIgnoreGlobal, NoIndex |-> NoIndex,
    NoIgnoreMessages |-> NoIgnoreMessages, NoIgnoreParent |-> NoIgnoreParent,
    NoIgnoreVcs |-> NoIgnoreVcs, NoMessages |-> NoMessages,
    NoPcre2Unicode |-> NoPcre2Unicode, NoRequireGit |-> NoRequireGit,
    NoUnicode |-> NoUnicode, Null |-> Null, NullData |-> NullData,
    OneFileSystem |-> OneFileSystem, OnlyMatching |-> OnlyMatching,
    PathSeparator |-> PathSeparator, Passthru |-> Passthru, PCRE2 |-> PCRE2,
    PCRE2Version |-> PCRE2Version, Pre |-> Pre, PreGlob |-> PreGlob,
    Pretty |-> Pretty, Quiet |-> Quiet, RegexSizeLimit |-> RegexSizeLimit,
    Regexp |-> Regexp, Replace |-> Replace, SearchZip |-> SearchZip,
    SmartCase |-> SmartCase, SortFiles |-> SortFiles, Sort |-> Sort,
    Sortr |-> Sortr, Stats |-> Stats, StopOnNonmatch |-> StopOnNonmatch,
    Text |-> Text, Threads |-> Threads, Trace |-> Trace, Trim |-> Trim,
    Type |-> Type, TypeAdd |-> TypeAdd, TypeClear |-> TypeClear,
    TypeNot |-> TypeNot, TypeList |-> TypeList, Unrestricted |-> Unrestricted,
    Version |-> Version, Vimgrep |-> Vimgrep, WithFilename |-> WithFilename,
    WithFilenameNo |-> WithFilenameNo, WordRegexp |-> WordRegexp]

NamesOf(flag) == FLAGS[flag].names \cup FLAGS[flag].negated
Names == UNION {NamesOf(flag) : flag \in DOMAIN FLAGS}

\* FlagMap::new asserts that no name is taken twice.
ASSUME NamesAssumption ==
    \A one, other \in DOMAIN FLAGS :
        one # other => NamesOf(one) \cap NamesOf(other) = {}

\* FlagMap::find.
Find == [name \in Names |-> CHOOSE flag \in DOMAIN FLAGS : name \in NamesOf(flag)]
=============================================================================
