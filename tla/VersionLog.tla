----------------------------- MODULE VersionLog -----------------------------
(***************************************************************************)
(* An object as an informer sees it: the sequence of its versions, of      *)
(* which the last is what etcd stores, the first is what the informer's    *)
(* cache holds, and the ones after the first are the watch events that are *)
(* still under way.                                                        *)
(***************************************************************************)
EXTENDS Naturals, Sequences

Stored(log) == log[Len(log)]
Cached(log) == log[1]

\* A write that changes nothing creates no version and no event.
Written(log, v) == IF v = Stored(log) THEN log ELSE Append(log, v)
=============================================================================
