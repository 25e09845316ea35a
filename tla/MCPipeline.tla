------------------------------ MODULE MCPipeline ------------------------------
(* Pipeline with rows of each kind redaction tells apart, two of whose peers *)
(* share a handle, over two connections to the hub.                          *)
EXTENDS Pipeline

String(s) == [type |-> "string", is |-> s]
Row(field, value, method) == [field |-> field, value |-> value, method |-> method]

MCHandleOf == [me |-> "h0", ann |-> "h1", bob |-> "h2", cyd |-> "h1"]
MCHostOf == [url |-> "host"]

MCReportable ==
  {Row("peerId", String("ann"), "m"),
   Row("unanswered", [type |-> "list", items |-> <<String("bob"), String("cyd"), String("*")>>], "m"),
   Row("args", [type |-> "hostile", is |-> "cycle"], "ping"),
   Row("cipher", String("seal"), "ping"),
   Row("data", [type |-> "symbol", is |-> "symbol"], "m"),
   Row("url", String("url"), "m")}
==============================================================================
