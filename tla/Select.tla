------------------------------- MODULE Select -------------------------------
(***************************************************************************)
(* Which files are indexed (indexer/select.go), along the path one file    *)
(* takes through indexOne: a verdict on the path, one on the size git      *)
(* listed, the read, one on the bytes, and on a later boot the sweep of    *)
(* the stored row.  A path is its segments and the facts its name carries; *)
(* a body is its sizes and what the scans find in it.                      *)
(***************************************************************************)
EXTENDS Integers, Sequences, FiniteSets

CONSTANTS
  SelectPaths,    \* [segs, base] records: directories, and a base name's facts
  SelectBodies,   \* [raw, redacted, nul, secretManifest, credential, marker]
  ExcludeLists,   \* BACKEND_INDEX_EXCLUDE, each a set of patterns (sequences of segments)
  MaxBytes, MaxDataBytes, MaxSchemaBytes

\* Sizes are counts of bytes, and paths and patterns are made of segments.
ASSUME SelectTables ==
  /\ {MaxBytes, MaxDataBytes, MaxSchemaBytes} \subseteq Nat
  /\ \A p \in SelectPaths : p.segs \in Seq(STRING) /\ p.base.name \in STRING
  /\ \A b \in SelectBodies : b.raw \in Nat /\ b.redacted \in Nat
  /\ \A list \in ExcludeLists : list \subseteq Seq(STRING)

VARIABLES
  path, body, excluding,   \* the file, and the operator's list
  listed,                 \* the size git listed for it, 0 when unknown
  verdict,                \* the decision reached so far, "" before one
  read,                   \* whether the bytes were read
  stored,                 \* the size of the files row, -1 before it is written
  selecting               \* "idle", "listed", "sized", "read", "row" or "swept"

selectVars == <<path, body, excluding, listed, verdict, read, stored, selecting>>

-----------------------------------------------------------------------------
(* The rules.                                                              *)

VendoredDirs  == {"node_modules", "vendor", "third_party", "thirdparty", ".venv", "site-packages"}
GeneratedDirs == {"dist", "build", "target", "out", ".next", "generated", "__generated__",
                  "__snapshots__", "coverage", ".idea", ".gradle", ".nx", ".angular"}
CatalogueDirs == {"i18n", "locales", "locale", "translations"}

\* matchSegments: "**" takes any number of segments, any other segment one.
\* What is computed for each rest of the pattern is the places in the path it
\* matches from, the end included.
MatchFrom(pat, segs) ==
  LET places[i \in 1 .. Len(pat) + 1] ==
        IF i > Len(pat) THEN {Len(segs) + 1}
        ELSE IF pat[i] = "**" THEN {j \in 1 .. Len(segs) + 1 : \E k \in places[i + 1] : j <= k}
        ELSE {j \in 1 .. Len(segs) : pat[i] \in {"*", segs[j]} /\ j + 1 \in places[i + 1]}
  IN  places
MatchSegments(pat, segs) == 1 \in MatchFrom(pat, segs)[1]

\* ValidateExclude, which the boot refuses to go on without.
ValidPattern(pat) == pat # <<>> /\ \A i \in 1 .. Len(pat) : pat[i] \notin {"", ".", ".."}

\* Excluded, over the whole path: the directories and the base name.
Segments(p) == Append(p.segs, p.base.name)
Excluded(list, p) == \E pat \in list : MatchSegments(pat, Segments(p))

\* segmentIn: any segment counts, the base name's too.
InDirs(p, dirs) == \E i \in 1 .. Len(Segments(p)) : Segments(p)[i] \in dirs

\* generatedByName: the name or the place says a machine wrote it.
GeneratedByName(p) ==
  \/ p.base.generated
  \/ InDirs(p, GeneratedDirs)
  \/ InDirs(p, CatalogueDirs) /\ p.base.catalogue

\* SelectPath: what needs neither size nor bytes; "" decides nothing.
SelectPath(list, p) ==
  IF Excluded(list, p) THEN "excluded"
  ELSE IF InDirs(p, VendoredDirs) THEN "vendored"
  ELSE IF GeneratedByName(p) THEN "generated"
  ELSE ""

\* dataReason: rows by format, or past the ceiling of the format.
IsData(p, size) ==
  \/ p.base.ext = "data"
  \/ p.base.ext = "schema" /\ size > MaxSchemaBytes
  \/ p.base.ext = "sized" /\ size > MaxDataBytes /\ ~p.base.manifest

SelectByPath(list, p, size) ==
  IF SelectPath(list, p) # "" THEN SelectPath(list, p)
  ELSE IF IsData(p, size) THEN "data" ELSE ""

\* Mutant: a configuration file is judged by its raw size.
SelectSizeRaw(list, p, size) ==
  IF size > MaxBytes THEN "too_large" ELSE SelectByPath(list, p, size)

\* SelectSize: the ceilings on the size git listed.  A configuration file is
\* redacted before the data ceiling applies, so its raw size decides none.
SelectSize(list, p, size) ==
  IF size > MaxBytes THEN "too_large"
  ELSE SelectByPath(list, p, IF p.base.config THEN 0 ELSE size)

\* The length of what is indexed: redact.Redact rewrites configuration only.
Length(p, b) == IF p.base.config THEN b.redacted ELSE b.raw

\* SelectBody: every rule, on the bytes.
SelectBody(list, p, b) ==
  IF b.raw > MaxBytes THEN "too_large"
  ELSE IF b.nul THEN "binary"
  ELSE IF (b.secretManifest /\ p.base.config) \/ b.credential THEN "secret"
  ELSE IF SelectByPath(list, p, Length(p, b)) # "" THEN SelectByPath(list, p, Length(p, b))
  ELSE IF b.marker THEN "generated"
  ELSE "include"

-----------------------------------------------------------------------------
(* Steps.                                                                  *)

SelectIdle ==
  /\ path = <<>> /\ body = <<>> /\ excluding = {} /\ listed = 0
  /\ verdict = "" /\ read = FALSE /\ stored = -1 /\ selecting = "idle"

\* The size git lists is the blob's, or unknown.
SelectInit ==
  /\ path \in SelectPaths /\ body \in SelectBodies
  /\ excluding \in {l \in ExcludeLists : \A pat \in l : ValidPattern(pat)}
  /\ listed \in {0, body.raw}
  /\ verdict = "" /\ read = FALSE /\ stored = -1 /\ selecting = "listed"

\* RecordSkipped with the size known then, or the next step.
Decide(v, size, next) ==
  /\ IF v = "" THEN /\ selecting' = next
                    /\ UNCHANGED <<verdict, stored>>
               ELSE /\ selecting' = "row"
                    /\ verdict' = v /\ stored' = size
  /\ UNCHANGED <<path, body, excluding, listed>>

DecidePath ==
  /\ selecting = "listed"
  /\ Decide(SelectPath(excluding, path), 0, "sized")
  /\ UNCHANGED read

DecideSize ==
  /\ selecting = "sized"
  /\ Decide(SelectSize(excluding, path, listed), listed, "read")
  /\ UNCHANGED read

\* The read is bounded by the ceiling: the reader refuses a larger blob unread.
DecideBody ==
  /\ selecting = "read"
  /\ read' = (body.raw <= MaxBytes)
  /\ Decide(SelectBody(excluding, path, body),
            IF body.raw > MaxBytes THEN body.raw ELSE Length(path, body), "row")

\* A later boot, perhaps under another exclusion list, sweeps the indexed rows
\* on the path and the stored size alone.
SweepRow ==
  /\ selecting = "row" /\ verdict = "include"
  /\ \E list \in ExcludeLists :
       /\ \A pat \in list : ValidPattern(pat)
       /\ excluding' = list
       /\ verdict' = IF SelectByPath(list, path, stored) = "" THEN "include"
                     ELSE SelectByPath(list, path, stored)
  /\ selecting' = "swept"
  /\ UNCHANGED <<path, body, listed, read, stored>>

SelectNext == DecidePath \/ DecideSize \/ DecideBody \/ SweepRow

\* One file's way through the rules.
SelectSpec == SelectInit /\ [][SelectNext]_selectVars

-----------------------------------------------------------------------------
(* Properties.                                                             *)

\* What a pattern means, said without a search: the path is cut into one
\* interval per pattern segment, of any length for "**", of one matching
\* segment for every other.
MatchesByCut(pat, segs) ==
  \E cut \in [1 .. Len(pat) + 1 -> 0 .. Len(segs)] :
    /\ cut[1] = 0 /\ cut[Len(pat) + 1] = Len(segs)
    /\ \A i \in 1 .. Len(pat) :
         IF pat[i] = "**" THEN cut[i] <= cut[i + 1]
         ELSE cut[i + 1] = cut[i] + 1 /\ pat[i] \in {"*", segs[cut[i + 1]]}

\* The early verdicts only save the read: whatever is refused on its path or
\* its listed size, before or after the read, is a file the full rules refuse
\* too, and whatever is indexed they include.  A rule applied early to a size
\* it does not mean (a configuration file shrinks when it is redacted) would
\* drop a file that should be indexed and say nothing.
EarlyVerdictsAgree ==
  selecting = "row" =>
    /\ (verdict = "include") <=> (SelectBody(excluding, path, body) = "include")
    /\ ~read => verdict # "include"

\* The sweep and the selector are one set of rules: a row is swept exactly
\* when indexing the same bytes again under the new list would refuse them,
\* so neither leaves what the other removes, whatever order they meet a file in.
SweepAgrees ==
  selecting = "swept" =>
    /\ (verdict = "include") <=> (SelectBody(excluding, path, body) = "include")
    /\ (verdict = "excluded") <=> \E pat \in excluding : MatchesByCut(pat, Segments(path))

\* One set of rules, wherever it is applied: EarlyVerdictsAgree, SweepAgrees.
VerdictsAgree == EarlyVerdictsAgree /\ SweepAgrees
=============================================================================
