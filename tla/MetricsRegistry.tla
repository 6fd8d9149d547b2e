--------------------------- MODULE MetricsRegistry ---------------------------
(***************************************************************************)
(* The metric factories of smarthr360_integration.observability over       *)
(* prometheus_client's registry (external).                                *)
(*                                                                         *)
(* A name is the sequence of its parts between underscores; a declaration  *)
(* is what a module asks a factory for, [kind, name]; the registry is the  *)
(* set of collectors [kind, base] made so far in the process.              *)
(***************************************************************************)
EXTENDS SequencesExt

NS == "smarthr360"

\* A name with the namespace in front, unless it has it already.
FullName(name) == IF Head(name) = NS THEN name ELSE <<NS>> \o name

\* The collector the constructor of a kind makes: a counter drops its "_total".
Construct(kind, full) ==
    [kind |-> kind,
     base |-> IF kind = "counter" /\ Last(full) = "total" THEN Front(full) ELSE full]

KindSuffixes(kind) ==
    CASE kind = "counter"   -> {"total", "created"}
      [] kind = "gauge"     -> {}
      [] kind = "histogram" -> {"bucket", "sum", "count", "created"}

\* The names a collector takes in the registry's map.
NamesOf(collector) ==
    {collector.base} \cup {Append(collector.base, s) : s \in KindSuffixes(collector.kind)}

Clash(c1, c2) == NamesOf(c1) \cap NamesOf(c2) # {}

\* The collectors found under the first registered one of name, name_total, name_created;
\* at most one, as no two collectors of a registry share a name.
Existing(registry, name) ==
    LET holders(n) == {c \in registry : n \in NamesOf(c)}
        total == Append(name, "total")
        created == Append(name, "created")
    IN  IF holders(name) # {} THEN holders(name)
        ELSE IF holders(total) # {} THEN holders(total)
        ELSE holders(created)

\* Faulty variant: whatever is registered under the name is returned.
BugGetAnyKind(registry, d) ==
    LET full  == FullName(d.name)
        found == Existing(registry, full)
        made  == Construct(d.kind, full)
    IN  IF found # {} THEN found
        ELSE IF \E c \in registry : Clash(c, made) THEN {}
        ELSE {made}

\* get_counter, get_gauge, get_histogram: the collectors a declaration may get hold of, none
\* when the constructor raises "Duplicated timeseries".
GetMetric(registry, d) ==
    LET full  == FullName(d.name)
        found == {c \in Existing(registry, full) : c.kind = d.kind}
        made  == Construct(d.kind, full)
    IN  IF found # {} THEN found
        ELSE IF \E c \in registry : Clash(c, made) THEN {}
        ELSE {made}
=============================================================================
