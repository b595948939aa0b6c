------------------------------- MODULE Config -------------------------------
(***************************************************************************)
(* The configuration of both programs, lib/config.go.  NewConfig parses    *)
(* the file and starts reload, which parses it again and replaces the map  *)
(* while getConf reads the map key by key.  Somebody may replace the file  *)
(* at any time.                                                            *)
(***************************************************************************)
EXTENDS Naturals, Sequences, FiniteSets, TLC

LOCAL INSTANCE SequencesExt
LOCAL INSTANCE FiniteSetsExt

CONSTANTS
  Files,    \* contents of the file: sequences of lines
  NoFile,   \* the file cannot be read
  Order,    \* the keys that getConf asks for, in order
  IntKeys,  \* those it asks for with GetInt
  Numerals, \* the values that are decimal numbers
  Empty,    \* the empty string
  Zero,     \* the zero value of a field of AppConfig
  MaxEdits  \* bound: how often the file is replaced

\* A line: whether parse skips it (blank, or begins with '+' or ';'), what
\* strings.Split at '=' makes of it, and whether a newline ends it.
ASSUME ConfigAssumption ==
  /\ \A f \in Files : \A i \in DOMAIN f :
       /\ f[i].skip \in BOOLEAN /\ f[i].ended \in BOOLEAN
       /\ f[i].parts # <<>>
       /\ i < Len(f) => f[i].ended
  /\ NoFile \notin Files
  /\ MaxEdits \in Nat

VARIABLES
  file,    \* the file on disk
  edits,   \* number of replacements so far
  data,    \* Config.data
  main,    \* NewConf: "start", "get" or "done"
  got,     \* the fields of AppConfig read so far, in order
  reload,  \* the goroutine reload: "off", "open", "swap" or "done"
  m,       \* the map reload has parsed
  first    \* history: the map NewConfig stored

vars == <<file, edits, data, main, got, reload, m, first>>

-----------------------------------------------------------------------------

\* A parser that keeps the first value of a key.
ParseLineFirst(map, line) ==
  IF line.skip \/ line.parts[1] = Empty \/ line.parts[1] \in DOMAIN map THEN map
  ELSE (line.parts[1] :> IF Len(line.parts) = 1 THEN Empty ELSE line.parts[2]) @@ map

\* One round of the loop of parse: a key without '=' has the empty value, a later
\* line overrides an earlier one, what follows a second '=' is dropped.
ParseLine(map, line) ==
  IF line.skip \/ line.parts[1] = Empty THEN map
  ELSE (line.parts[1] :> IF Len(line.parts) = 1 THEN Empty ELSE line.parts[2]) @@ map

\* parse.  ReadString reports io.EOF for a last line without newline, which is
\* dropped.
Parse(f) == FoldLeft(ParseLine, <<>>, SelectSeq(f, LAMBDA line : line.ended))

\* GetInt and GetString: a missing key, and for GetInt a value that Atoi rejects,
\* yield the zero value.
Get(map, key) ==
  IF key \notin DOMAIN map \/ (key \in IntKeys /\ map[key] \notin Numerals) THEN Zero
  ELSE map[key]

Values == {Empty, Zero} \cup UNION {UNION {Range(f[i].parts) : i \in DOMAIN f} : f \in Files}

IsMap(map) == DOMAIN map \subseteq Values /\ \A k \in DOMAIN map : map[k] \in Values

Init ==
  /\ file \in Files \cup {NoFile}
  /\ edits = 0
  /\ data = <<>> /\ m = <<>> /\ first = <<>>
  /\ main = "start"
  /\ got = <<>>
  /\ reload = "off"

-----------------------------------------------------------------------------

\* An operator of the machine replaces the file.
Edit ==
  /\ edits < MaxEdits
  /\ edits' = edits + 1
  /\ file' \in (Files \cup {NoFile}) \ {file}
  /\ UNCHANGED <<data, main, got, reload, m, first>>

\* NewConfig: parse, store the map, go reload.
NewConfig ==
  /\ main = "start"
  /\ file # NoFile
  /\ data' = Parse(file)
  /\ first' = Parse(file)
  /\ main' = "get"
  /\ reload' = "open"
  /\ UNCHANGED <<file, edits, got, m>>

\* NewConfig returns the error and an empty Config; NewConf goes on with it.
NewConfigFails ==
  /\ main = "start"
  /\ file = NoFile
  /\ main' = "get"
  /\ UNCHANGED <<file, edits, data, got, reload, m, first>>

\* getConf asks for the next key under the read lock.
GetConf ==
  /\ main = "get"
  /\ got' = Append(got, Get(data, Order[Len(got) + 1]))
  /\ main' = IF Len(got') = Len(Order) THEN "done" ELSE "get"
  /\ UNCHANGED <<file, edits, data, reload, m, first>>

\* reload: Open, Stat, and parse.  lastModifyTime is 0, so that any file is newer.
ReloadParse ==
  /\ reload = "open"
  /\ file # NoFile
  /\ m' = Parse(file)
  /\ reload' = "swap"
  /\ UNCHANGED <<file, edits, data, main, got, first>>

\* reload returns when the file cannot be read.
ReloadFails ==
  /\ reload = "open"
  /\ file = NoFile
  /\ reload' = "done"
  /\ UNCHANGED <<file, edits, data, main, got, m, first>>

\* A reload that stores key after key.
ReloadSwapKeys ==
  /\ reload = "swap"
  /\ \E k \in DOMAIN m :
       /\ data' = (k :> m[k]) @@ data
       /\ reload' = IF data' = m THEN "done" ELSE "swap"
  /\ UNCHANGED <<file, edits, main, got, m, first>>

\* reload: the new map under the write lock.  notifyList is empty.
ReloadSwap ==
  /\ reload = "swap"
  /\ data' = m
  /\ reload' = "done"
  /\ UNCHANGED <<file, edits, main, got, m, first>>

Reload == ReloadParse \/ ReloadFails \/ ReloadSwap

NewConf == NewConfig \/ NewConfigFails \/ GetConf

Next == Edit \/ NewConf \/ Reload

Spec == Init /\ [][Next]_vars

\* main and the goroutine reload are scheduled.
FairSpec == Spec /\ WF_vars(NewConf) /\ WF_vars(Reload)

-----------------------------------------------------------------------------

\* The lines of f that set key k.
Setting(f, k) == {i \in DOMAIN f : f[i].ended /\ ~f[i].skip /\ f[i].parts[1] = k}

\* Whatever file is on disk, parse gives every key the value of the last complete
\* line that sets it, and no other key a value.
ParseIsLastLine ==
  file # NoFile =>
    /\ DOMAIN Parse(file) = {k \in Values \ {Empty} : Setting(file, k) # {}}
    /\ \A k \in DOMAIN Parse(file) :
         LET line == file[Max(Setting(file, k))].parts
         IN  Parse(file)[k] = IF Len(line) = 1 THEN Empty ELSE line[2]

\* The AppConfig that getConf builds while reload replaces the map is that of the
\* first map up to some field and that of the reloaded map from there on: a field
\* never goes back to the old file, and no third version shows.
OneSwitch ==
  \E k \in 0..Len(got) :
    /\ \A i \in 1..k : got[i] = Get(first, Order[i])
    /\ \A i \in (k + 1)..Len(got) : reload = "done" /\ got[i] = Get(data, Order[i])

\* reload keeps loading the file: once it was started, a file that stays gets
\* into the map.
EditIsLoaded ==
  \A f \in Files : reload # "off" /\ file = f ~> data = Parse(f) \/ file # f
=============================================================================
