-------------------------- MODULE MCCompressBench --------------------------
EXTENDS CompressBench, TLC

CONSTANT none

(* Every field at a boundary of its check, and two output file names.      *)
MCConfigs ==
  [compute_time: {-1, 0}, iterations: {0, 1}, nprocs: {1, 2}, ppn: {0, 1},
   output_file: {"", "a.txt", "b.txt"}, trace: BOOLEAN]

MCOutNames == {"a.txt", "b.txt"}
=============================================================================
