------------------------------ MODULE MCAirflow ------------------------------
(* Airflow with three trays and a majority of two (the chassis: 5 and 3).   *)
EXTENDS Airflow
=============================================================================
