---------------------------- MODULE ExportReport ----------------------------
(* Exports of reports (iad/export): each call writes its files into a run    *)
(* directory of its own, one after the other, and answers with their list.   *)
(* The automated package adds a manifest of that list and an archive of the  *)
(* directory.  Calls come from browser sessions and API requests at once.    *)
EXTENDS Naturals, Sequences

CONSTANTS
  Exports,       \* calls of the export service
  ChartColumns   \* sequences of numeric columns a dataset may have

ASSUME ChartsAssumption == ChartColumns \subseteq Seq(STRING)

VARIABLES
  renders,   \* kaleido can render a PNG: probed once per process
  exports,   \* what each call is doing
  disk,      \* files written, each with the call that wrote it
  archives   \* directories zipped, with what the archive holds

exportVars == <<renders, exports, disk, archives>>

ExportKinds     == {"automated", "bundle", "pdf", "docx", "html", "png", "csv", "json"}
Documents == {"pdf", "docx"}

Unstarted == [kind |-> "none", todo |-> <<>>, dir |-> "none", listed |-> {}, state |-> "new"]

ExportInit ==
  /\ renders \in BOOLEAN
  /\ exports = [e \in Exports |-> Unstarted]
  /\ disk = {} /\ archives = {}

-----------------------------------------------------------------------------
\* The directory is named after a random id.
\* Faulty variant: it is named after the kind of export.
RunDir_Shared(e, kind) == kind
RunDir(e, kind) == e

File(name, format) == [name |-> name, format |-> format]

Manifest == File("manifest", "json")
Package  == File("package", "zip")

\* A chart page for each of the first three numeric columns, with an image for the
\* documents when images can be rendered.
Charts(columns) ==
  LET image(i) == IF renders THEN <<File(columns[i], "png")>> ELSE <<>>
      chart(i) == IF Len(columns) < i THEN <<>> ELSE <<File(columns[i], "html")>> \o image(i)
  IN  chart(1) \o chart(2) \o chart(3)

\* The files a call writes, in order; without metrics no table of them.
Steps(kind, columns, metrics) ==
  CASE kind = "automated" ->
         Charts(columns) \o <<File("report", "pdf"), File("report", "docx")>>
           \o (IF metrics THEN <<File("metrics", "csv"), File("metrics", "json")>> ELSE <<>>)
           \o <<Manifest, Package>>
    [] kind = "bundle" ->
         <<File("report", "pdf"), File("report", "docx")>>
           \o (IF metrics THEN <<File("metrics", "csv")>> ELSE <<>>)
    [] kind \in Documents       -> <<File("report", kind)>>
    [] kind \in {"html", "png"} -> <<File("chart", kind)>>
    [] OTHER                  -> <<File("metrics", kind)>>

BeginExport(e, kind, columns, metrics) ==
  /\ exports[e].state = "new"
  /\ exports' = [exports EXCEPT ![e] =
       [kind |-> kind, todo |-> Steps(kind, columns, metrics), dir |-> RunDir(e, kind),
        listed |-> {}, state |-> "writing"]]
  /\ UNCHANGED <<renders, disk, archives>>

\* A file of the same path is overwritten; a manifest carries the list.
PutFile(e, f, content) ==
  LET here == [dir |-> exports[e].dir, file |-> f]
  IN  {d \in disk : d.at # here} \cup {[at |-> here, by |-> e, content |-> content]}

\* Charts, documents and tables of metrics: written, then listed.
WriteListed(e) ==
  LET f == Head(exports[e].todo)
  IN  /\ disk' = PutFile(e, f, {})
      /\ exports' = [exports EXCEPT ![e].todo = Tail(@), ![e].listed = @ \cup {f}]

\* A page that draws itself, or an image if images can be rendered.
WriteChart(e) ==
  /\ Head(exports[e].todo).format \in {"html", "png"}
  /\ Head(exports[e].todo).format = "png" => renders
  /\ WriteListed(e)

WritePdf(e)  == Head(exports[e].todo).format = "pdf" /\ WriteListed(e)
WriteDocx(e) == Head(exports[e].todo).format = "docx" /\ WriteListed(e)

WriteMetrics(e) ==
  \E format \in {"csv", "json"} : Head(exports[e].todo) = File("metrics", format) /\ WriteListed(e)

\* An image of the automated package that cannot be rendered is skipped.
SkipImage(e) ==
  \E f \in {Head(exports[e].todo)} :
    /\ f.format = "png" /\ exports[e].kind = "automated"
    /\ exports' = [exports EXCEPT ![e].todo = Tail(@)]
    /\ UNCHANGED disk

\* Every other failure ends the call; what it wrote stays in its directory.
FailExport(e) ==
  /\ ~ (Head(exports[e].todo).format = "png" /\ exports[e].kind = "automated")
  /\ exports' = [exports EXCEPT ![e].todo = <<>>, ![e].state = "failed"]
  /\ UNCHANGED disk

WriteManifest(e) ==
  /\ Head(exports[e].todo) = Manifest
  /\ disk' = PutFile(e, Manifest, exports[e].listed)
  /\ exports' = [exports EXCEPT ![e].todo = Tail(@)]

\* Whatever the directory holds goes into an archive beside it.
ZipDirectory(e) ==
  /\ Head(exports[e].todo) = Package
  /\ archives' = {a \in archives : a.dir # exports[e].dir} \cup
       {[dir |-> exports[e].dir, holds |-> {d \in disk : d.at.dir = exports[e].dir}]}
  /\ exports' = [exports EXCEPT ![e].todo = Tail(@)]
  /\ UNCHANGED disk

AnswerExport(e) ==
  /\ exports[e].state = "writing" /\ exports[e].todo = <<>>
  /\ exports' = [exports EXCEPT ![e].state = "answered"]
  /\ UNCHANGED <<renders, disk, archives>>

StepOf(e) ==
  /\ exports[e].state = "writing" /\ exports[e].todo # <<>>
  /\ UNCHANGED renders
  /\ \/ WriteChart(e) /\ UNCHANGED archives
     \/ WritePdf(e) /\ UNCHANGED archives
     \/ WriteDocx(e) /\ UNCHANGED archives
     \/ WriteMetrics(e) /\ UNCHANGED archives
     \/ SkipImage(e) /\ UNCHANGED archives
     \/ FailExport(e) /\ UNCHANGED archives
     \/ WriteManifest(e) /\ UNCHANGED archives
     \/ ZipDirectory(e)

\* Page 8 offers a table of metrics only with metrics to put into it.
Offered(kind, metrics) == kind \in ExportKinds /\ (kind \in {"csv", "json"} => metrics)

ExportNext ==
  \E e \in Exports :
    \/ \E kind \in ExportKinds, columns \in ChartColumns, metrics \in BOOLEAN :
         /\ Offered(kind, metrics)
         /\ BeginExport(e, kind, columns, metrics)
    \/ StepOf(e)
    \/ AnswerExport(e)

ExportSpec == ExportInit /\ [][ExportNext]_exportVars

-----------------------------------------------------------------------------
\* Types of the variables.
ExportTypeOK ==
  /\ renders \in BOOLEAN
  /\ DOMAIN exports = Exports
  /\ \A e \in Exports : exports[e].state \in {"new", "writing", "answered", "failed"}
  /\ \A d \in disk : d.by \in Exports
  /\ \A a \in archives : a.holds \subseteq disk

\* An answered export names files that are there and are its own; the archive
\* of an automated package holds exactly the files its manifest lists, and the
\* manifest, although an image may have failed on the way and other exports
\* ran meanwhile (generate_automated_report, ExportService).
ExportsAreWhole ==
  \A e \in Exports : exports[e].state = "answered" =>
    LET own(f, content) == [at |-> [dir |-> exports[e].dir, file |-> f], by |-> e, content |-> content]
        files == {own(f, {}) : f \in exports[e].listed}
    IN  /\ files \subseteq disk
        /\ exports[e].kind = "automated" =>
             [dir |-> exports[e].dir,
              holds |-> files \cup {own(Manifest, exports[e].listed)}] \in archives
=============================================================================
