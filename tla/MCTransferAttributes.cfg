SPECIFICATION Spec
CONSTANTS
  Name = {"d", "s", "f", "g"}
  Path <- MCPath
  Data = {"x", "y"}
  Attr = {"m", "o"}
  Tasks <- MCTasks
  Default = "default"
  Partial = "partial"
INVARIANT TemplateAttributes
