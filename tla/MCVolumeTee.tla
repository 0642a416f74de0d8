----------------------------- MODULE MCVolumeTee -----------------------------
(* VolumeTee over every way an archive of at most two files is written by a tar
   that ends right after the end marker, or breaks off before it.  One file may
   hold a zero block, or what looks like a header.                           *)
EXTENDS VolumeTee

File    == <<"head", "data">>
Marker  == <<"end", "end">>
Zeros   == <<"head", "end">>
Nested  == <<"head", "head">>
Archive == {Marker, File \o Marker, Zeros \o File \o Marker, Nested \o File \o Marker}

(* The archive is cut anywhere, by a helper that fails or that does not. *)
Cut == UNION {{SubSeq(a, 1, n) : n \in 0..Len(a)} : a \in Archive}

(* busybox tar (alpine:3, the first helper candidate) and Go's own writer. *)
Unpadded == [blocks : Archive \cup Cut \cup {<<"junk">>, File \o <<"junk">>},
             exit : {"ok", "error"}]

(* GNU tar (debian:bookworm-slim, ubuntu) fills the last record with zeros. *)
Padded == [blocks : {a \o Marker : a \in Archive}, exit : {"ok"}]
==============================================================================
