SPECIFICATION Spec
CONSTANTS
  Hosts = {h1, h2}
  Profiles = {p1}
  Values = {1, 2}
  Configs <- EncryptingConfig
  Damages = {"invalidHost", "notObject"}
PROPERTIES OthersAreKept
