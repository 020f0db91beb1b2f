------------------------------ MODULE MCImport ------------------------------
(* Import of a student, a professor and a project, with a relation each.      *)
EXTENDS Import

CONSTANTS s1, f1, p1

MCStudents == <<s1>>
MCProfs == <<f1>>
MCProjs == <<p1>>
MCStudentProj == <<<<s1, p1>>>>
MCProfProj == <<<<f1, p1>>>>

=============================================================================
