-------------------------------- MODULE MCArgs --------------------------------
(***************************************************************************)
(* Small instances of Args for TLC.  A theme is a set of words that meet   *)
(* in some field, or somewhere between a word and what is done about it.   *)
(***************************************************************************)
EXTENDS Args

Given(name)       == [name |-> name, value |-> "none"]
With(name, value) == [name |-> name, value |-> value]
Positional(text)  == [name |-> "", value |-> text]
All(names)        == {Given(name) : name \in names}

ContextWords == {With("A", "1"), With("B", "2"), With("C", "2"), With("C", "0"),
                 Given("passthru"), Given("heading"), Given("vimgrep"), Positional("Foo")}
CaseWords    == All({"s", "i", "S", "x", "w", "F", "P", "auto-hybrid-regex", "no-pcre2"})
                \cup {With("engine", "default"), With("engine", "auto"), Positional("Foo")}
BinaryWords  == All({"a", "binary", "no-binary", "null-data", "crlf", "no-crlf", "u",
                     "U", "multiline-dotall", "stop-on-nonmatch", "no-multiline"})
                \cup {Positional("Foo")}
DecodeWords  == All({"z", "no-search-zip", "no-pre", "no-encoding", "no-unicode", "v"})
                \cup {With("pre", "d"), With("pre", ""), With("E", "utf-16"),
                      With("E", "none"), Positional("Foo")}
ModeWords    == All({"c", "count-matches", "l", "files-without-match", "json", "no-json",
                     "files", "type-list", "o", "v", "q", "stats"})
                \cup {With("generate", "man"), With("m", "0"), Positional("Foo")}
SortWords    == All({"sort-files", "no-sort-files"})
                \cup {With("sort", "path"), With("sort", "none"), With("sortr", "path"),
                      With("sortr", "modified"), With("j", "2"), With("j", "0"),
                      Positional("Foo"), Positional("f")}
InputWords   == {With("f", "-"), With("f", "f"), With("f", "nowhere"), With("e", "Foo"),
                 Given("e"), Given("no-index"), Given("files"), Given("bench"),
                 Positional("-"), Positional("Foo"), Positional("d"), Positional("f")}
SpecialWords == All({"h", "V", "help", "version", "pcre2-version", "no-config"})
                \cup {With("crlf", "1"), With("help", "1"), With("A", "f"), Given("nonesuch"),
                      Positional("Foo")}
IndexWords   == All({"no-index", "bench", "files"})
                \cup {With("index", "auto"), With("index", "f"), With("index-dir", "d"),
                      With("index-backend", "tantivy"), With("index-backend", "postings"),
                      Positional("Foo"), Positional("-")}

Themes1 == {ContextWords, CaseWords, BinaryWords, DecodeWords, ModeWords, SortWords,
            InputWords, SpecialWords, IndexWords}
WalkWords == All(UNION {NamesOf(flag) : flag \in {"Follow", "Hidden",
                     "GlobCaseInsensitive", "IgnoreFileCaseInsensitive", "NoIgnore",
                     "NoIgnoreDot", "NoIgnoreExclude", "NoIgnoreFiles", "NoIgnoreGlobal",
                     "NoIgnoreParent", "NoIgnoreVcs", "NoRequireGit", "OneFileSystem"}})
             \cup {With(name, "1") : name \in {"d", "max-filesize"}}
             \cup {With(name, "*.c") : name \in {"g", "iglob", "t", "T", "type-add",
                                                 "type-clear", "ignore-file"}}
             \cup {Given("u"), Positional("Foo")}
OtherWords == All({"b", "column", "no-column", "n", "N", "H", "I", "p", "block-buffered",
                   "no-block-buffered", "line-buffered", "no-line-buffered",
                   "no-context-separator", "include-zero", "max-columns-preview", "0",
                   "trim", "debug", "trace", "no-messages", "no-ignore-messages",
                   "no-pcre2-unicode", "mmap", "no-mmap", "no-heading"})
              \cup {With("color", "always"), With("colors", "path:none"),
                    With("context-separator", ""), With("field-context-separator", "d"),
                    With("field-match-separator", "d"), With("path-separator", "d"),
                    With("path-separator", "Foo"), With("hostname-bin", ""),
                    With("hyperlink-format", "file"), With("M", "0"), With("M", "1"),
                    With("r", "f"), With("dfa-size-limit", "1"), With("regex-size-limit", "1"),
                    With("pre-glob", "*.c"), Positional("Foo")}
AllThemes == Themes1 \cup {WalkWords, OtherWords}
HelpThemes == {SpecialWords}
ValueThemes == {{Given("e"), Given("help"), Positional("Foo")}}

\* Three words of a small theme meet, two of a large one.
BoundOf(themes) == [t \in themes |-> IF Cardinality(t) <= 16 THEN 3 ELSE 2]
AllBounds  == BoundOf(AllThemes)
HelpBounds == BoundOf(HelpThemes)
ValueBounds == BoundOf(ValueThemes)
=============================================================================
