---------------------------------- MODULE Paging ----------------------------------
(***************************************************************************)
(* One page of the rows of a query: what paginate.applyPager cuts out,     *)
(* given the page and the page size of a request's Config.  The sizes are  *)
(* the package's variables, 50 unless an application sets them; products   *)
(* of a page and a size are those that fit an integer.                     *)
(***************************************************************************)
EXTENDS Integers, Sequences

CONSTANTS MaxPageSize, DefaultPageSize

Limited(s, offset, limit) ==
  SubSeq(s, offset + 1, IF offset + limit < Len(s) THEN offset + limit ELSE Len(s))

sizeOf(cfg) ==
  LET asked == IF cfg.pageSize <= 0 THEN DefaultPageSize ELSE cfg.pageSize
  IN IF asked > MaxPageSize THEN MaxPageSize ELSE asked
pageOf(cfg) == IF cfg.page < 0 THEN 0 ELSE cfg.page

\* Mutant: the offset counts pages of the size asked for.
applyPagerAsked(s, cfg) ==
  Limited(s, pageOf(cfg) * (IF cfg.pageSize <= 0 THEN sizeOf(cfg) ELSE cfg.pageSize), sizeOf(cfg))

applyPager(s, cfg) == Limited(s, pageOf(cfg) * sizeOf(cfg), sizeOf(cfg))
=============================================================================
